---- MODULE Spec2Model ----
(***************************************************************************)
(* A model of the YouTube Timestamp Saver userscript                       *)
(* (src/youtube-timestamp-saver.user.js): the persisted 'timestamps' map   *)
(* with its two store implementations (saveTimestamp / loadTimestamp of    *)
(* the first script body, TimestampManager of the second), the navigation  *)
(* watcher, the restoration paths and the save scheduler.                  *)
(*                                                                         *)
(* Conventions.                                                            *)
(*  - JavaScript null, undefined and '' are all falsy and are only ever    *)
(*    tested for truthiness or compared with a non-empty id, so the absent *)
(*    video id is the empty string NoId.                                   *)
(*  - Numbers are integers; the JavaScript NaN is the token NaN, and the   *)
(*    comparison operators below are false on it, as in JavaScript.        *)
(*  - The persisted map is a sequence of entries in the property order of  *)
(*    the JavaScript object (insertion order), because the stable sort of  *)
(*    the clean-up resolves ties of savedAt by that order.                 *)
(*  - Date.now() is the variable now, in milliseconds.                     *)
(***************************************************************************)
EXTENDS Integers, Sequences, FiniteSets, TLC

VARIABLES
    settings,      \* the settings bag (fixed after construction)
    timestamps,    \* GM storage key 'timestamps'
    now,           \* Date.now()
    url,           \* window.location: [v, hasT, t]
    video,         \* document.querySelector('video'): [present, currentTime, paused, duration]
    pendingSaves,  \* setTimeout(() => saveTimestamp(videoId, time, force), 1500) not yet fired
    videoState,    \* State.videoState of the second script body
    prog,          \* module-level and closure variables of the running script
    timers,        \* pending one-shot timers of the restoration paths
    hist           \* history of the last operation (observation only)

vars == <<settings, timestamps, now, url, video, pendingSaves, videoState, prog, timers, hist>>

----------------------------------------------------------------------------
(* Bounds of the model *)

StartNow == 2000
TickMs == 1000
MaxTicks == 1
MaxPendingSaves == 1

----------------------------------------------------------------------------
(* JavaScript numbers *)

NaN == 1000000

IsNaN(x) == x = NaN

Lt(a, b) == ~IsNaN(a) /\ ~IsNaN(b) /\ a < b
Gt(a, b) == ~IsNaN(a) /\ ~IsNaN(b) /\ a > b
Ge(a, b) == ~IsNaN(a) /\ ~IsNaN(b) /\ a >= b
Sub(a, b) == IF IsNaN(a) \/ IsNaN(b) THEN NaN ELSE a - b
Abs(a) == IF IsNaN(a) THEN NaN ELSE IF a < 0 THEN 0 - a ELSE a
\* x || 0 : NaN and 0 are falsy
OrZero(x) == IF IsNaN(x) THEN 0 ELSE x
\* Math.floor on the integers of the model
Floor(x) == x

NoId == ""
VideoIds == {"a", "b"}

Null == [null |-> TRUE]

----------------------------------------------------------------------------
(* The URL's time parameter: a string is a sequence of lexemes, a run of   *)
(* digits (k = "n", its value n) or one other character (k = "c").         *)

Num(n) == [k |-> "n", n |-> n, c |-> ""]
Chr(c) == [k |-> "c", n |-> 0, c |-> c]

\* (?:(\d+)<u>)? tried at position pos: the digit run must be followed by u
MatchUnit(t, pos, u) ==
    /\ pos + 1 <= Len(t)
    /\ t[pos].k = "n"
    /\ t[pos + 1].k = "c"
    /\ t[pos + 1].c = u

\* urlTime.match(/(?:(\d+)h)?(?:(\d+)m)?(?:(\d+)s)?/): every part is optional, so
\* the pattern matches at index 0 of any string, possibly the empty match;
\* a group that did not take part is undefined and defaults to 0.
TimeMatch(t) ==
    LET hOk == MatchUnit(t, 1, "h")
        p1  == IF hOk THEN 3 ELSE 1
        mOk == MatchUnit(t, p1, "m")
        p2  == IF mOk THEN p1 + 2 ELSE p1
        sOk == MatchUnit(t, p2, "s")
    IN [matched |-> TRUE,
        hours   |-> IF hOk THEN t[1].n ELSE 0,
        minutes |-> IF mOk THEN t[p1].n ELSE 0,
        seconds |-> IF sOk THEN t[p2].n ELSE 0]

UrlTimeSeconds(t) ==
    LET tm == TimeMatch(t)
    IN (tm.hours * 3600) + (tm.minutes * 60) + tm.seconds

----------------------------------------------------------------------------
(* The persisted map as an ordered sequence of entries *)

Ids(ts) == {ts[i].id : i \in 1..Len(ts)}

HasId(ts, id) == id \in Ids(ts)

IndexOf(ts, id) == CHOOSE i \in 1..Len(ts) : ts[i].id = id

\* timestamps[videoId]
Lookup(ts, id) == ts[IndexOf(ts, id)]

\* the value of an entry, as the script sees it
Value(e) == [time |-> e.time, savedAt |-> e.savedAt, title |-> e.title, duration |-> e.duration]

\* timestamps[videoId] = {...}: an existing key keeps its place, a new key is appended
Put(ts, e) ==
    IF HasId(ts, e.id)
    THEN [i \in 1..Len(ts) |-> IF ts[i].id = e.id THEN e ELSE ts[i]]
    ELSE Append(ts, e)

\* delete timestamps[videoId]
Remove(ts, id) == SelectSeq(ts, LAMBDA e : e.id # id)

\* document.title.replace(' - YouTube', ''): the page title follows the video shown
DocTitle == url.v

----------------------------------------------------------------------------
(* Array helpers of the clean-up *)

\* mutant: the comparator with its operands swapped (ascending order)
CompareSavedAtAscending(a, b) == a.savedAt - b.savedAt

\* the comparator (a, b) => b[1].savedAt - a[1].savedAt
CompareSavedAt(a, b) == b.savedAt - a.savedAt

\* Array.prototype.sort is stable: e goes before the first element the
\* comparator orders after it
InsertSorted(s, e) ==
    LET after == {i \in 1..Len(s) : CompareSavedAt(s[i], e) > 0}
        k == IF after = {} THEN Len(s) + 1 ELSE CHOOSE i \in after : \A j \in after : i <= j
    IN SubSeq(s, 1, k - 1) \o <<e>> \o SubSeq(s, k, Len(s))

RECURSIVE SortFrom(_, _, _)
SortFrom(ts, i, acc) ==
    IF i > Len(ts) THEN acc ELSE SortFrom(ts, i + 1, InsertSorted(acc, ts[i]))

\* timestampEntries.sort((a, b) => b[1].savedAt - a[1].savedAt)
SortEntries(ts) == SortFrom(ts, 1, <<>>)

\* Array.prototype.slice(0, end)
Slice0(s, end) ==
    LET e == IF end < 0
             THEN (IF Len(s) + end < 0 THEN 0 ELSE Len(s) + end)
             ELSE (IF end > Len(s) THEN Len(s) ELSE end)
    IN SubSeq(s, 1, e)

\* Object.fromEntries(sortedEntries.slice(0, settings.maxStoredTimestamps - 1))
CleanedUp(ts) == Slice0(SortEntries(ts), settings.maxStoredTimestamps - 1)

RECURSIVE AssignFrom(_, _, _)
AssignFrom(target, src, i) ==
    IF i > Len(src) THEN target ELSE AssignFrom(Put(target, src[i]), src, i + 1)

\* Object.assign(target, source): every own property of source is set on target
ObjectAssign(target, src) == AssignFrom(target, src, 1)

----------------------------------------------------------------------------
(* saveTimestamp / loadTimestamp of the first script body *)

MaxRecursion == 3

NoDefer == <<>>

SaveResult(ts, outcome, defer, cleaned, from, kept) ==
    [ts |-> ts, outcome |-> outcome, defer |-> defer,
     cleaned |-> cleaned, from |-> from, kept |-> kept]

\* video?.duration || 0
RecordedDuration == IF video.present THEN OrZero(video.duration) ELSE 0

\* mutant: the validation without its isNaN test
InvalidTimeNegativeOnly(time) == time < 0

\* isNaN(time) || time < 0
InvalidTime(time) == IsNaN(time) \/ time < 0

\* mutant: the throttle applies to forced saves too
ThrottledForcedToo(force, lastSave) == now - lastSave < settings.minSaveInterval * 1000

\* !force && now - lastSave < settings.minSaveInterval * 1000
Throttled(force, lastSave) == ~force /\ now - lastSave < settings.minSaveInterval * 1000

RECURSIVE SaveTimestamp(_, _, _, _, _)
SaveTimestamp(ts, videoId, time, force0, depth) ==
    LET lastSave == IF HasId(ts, videoId) THEN Lookup(ts, videoId).savedAt ELSE 0
        isPaused == video.present /\ video.paused
        force    == force0 \/ (isPaused /\ settings.saveOnPause)
    IN  IF videoId = NoId
          THEN SaveResult(ts, "noid", NoDefer, FALSE, <<>>, <<>>)
        ELSE IF ~force0 /\ isPaused /\ ~settings.saveOnPause
          THEN SaveResult(ts, "paused", NoDefer, FALSE, <<>>, <<>>)
        ELSE IF Throttled(force, lastSave)
          THEN SaveResult(ts, "throttled", NoDefer, FALSE, <<>>, <<>>)
        ELSE IF InvalidTime(time)
          THEN SaveResult(ts, "invalid", NoDefer, FALSE, <<>>, <<>>)
        ELSE IF Len(ts) >= settings.maxStoredTimestamps
          THEN LET newTimestamps == CleanedUp(ts)
               IN  IF force
                     THEN SaveResult(newTimestamps, "deferred",
                                     <<[id |-> videoId, time |-> time, force |-> force]>>,
                                     TRUE, ts, newTimestamps)
                   ELSE IF depth >= MaxRecursion
                     THEN SaveResult(newTimestamps, "overflow", NoDefer, TRUE, ts, newTimestamps)
                   ELSE LET r == SaveTimestamp(newTimestamps, videoId, time, force, depth + 1)
                        IN  SaveResult(r.ts, r.outcome, r.defer, TRUE, ts, newTimestamps)
        ELSE SaveResult(Put(ts, [id |-> videoId, time |-> time, savedAt |-> now,
                                 title |-> DocTitle, duration |-> RecordedDuration]),
                        "written", NoDefer, FALSE, <<>>, <<>>)

\* mutant: the distance to the saved time taken without Math.abs
UrlOverrideSigned(savedData, u) ==
    /\ settings.smartTimestampHandling
    /\ u.hasT /\ u.t # <<>>
    /\ Gt(Sub(UrlTimeSeconds(u.t), savedData.time), 30)

\* the URL override of load at location u: urlParams.get('t') is truthy,
\* the pattern matched, and the parsed time is more than 30 seconds away
\* from the saved time
UrlOverride(savedData, u) ==
    /\ settings.smartTimestampHandling
    /\ u.hasT /\ u.t # <<>>
    /\ TimeMatch(u.t).matched
    /\ Gt(Abs(Sub(UrlTimeSeconds(u.t), savedData.time)), 30)

Synthetic(time) == [time |-> time, savedAt |-> now]

\* loadTimestamp(videoId) with window.location = u
LoadTimestampAt(ts, videoId, u) ==
    IF videoId = NoId \/ ~HasId(ts, videoId) THEN Null
    ELSE LET savedData == Value(Lookup(ts, videoId))
         IN  IF UrlOverride(savedData, u)
               THEN Synthetic(UrlTimeSeconds(u.t))
             ELSE IF /\ video.present
                     /\ savedData.duration # 0
                     /\ Gt(savedData.time, Sub(savedData.duration, 30))
               THEN Synthetic(0)
             ELSE savedData

LoadTimestamp(ts, videoId) == LoadTimestampAt(ts, videoId, url)

----------------------------------------------------------------------------
(* TimestampManager of the second script body *)

\* !videoId || isNaN(time) || time < 0
ManagerInvalid(videoId, time) == videoId = NoId \/ IsNaN(time) \/ time < 0

ManagerSave(ts, videoId, time, force) ==
    LET lastSave == IF HasId(ts, videoId) THEN Lookup(ts, videoId).savedAt ELSE 0
    IN  IF ManagerInvalid(videoId, time)
          THEN SaveResult(ts, "invalid", NoDefer, FALSE, <<>>, <<>>)
        ELSE IF ~force /\ videoState.isPaused /\ ~settings.saveOnPause
          THEN SaveResult(ts, "paused", NoDefer, FALSE, <<>>, <<>>)
        ELSE IF Throttled(force, lastSave)
          THEN SaveResult(ts, "throttled", NoDefer, FALSE, <<>>, <<>>)
        ELSE LET managed ==
                    IF Len(ts) >= settings.maxStoredTimestamps
                    THEN ObjectAssign(ts, CleanedUp(ts))
                    ELSE ts
             IN  SaveResult(Put(managed, [id |-> videoId, time |-> time, savedAt |-> now,
                                          title |-> videoState.title,
                                          duration |-> videoState.duration]),
                            "written", NoDefer,
                            Len(ts) >= settings.maxStoredTimestamps, ts, managed)

\* TimestampManager.load(videoId) with window.location = u
ManagerLoadAt(ts, videoId, u) ==
    IF videoId = NoId \/ ~HasId(ts, videoId) THEN Null
    ELSE LET savedData == Value(Lookup(ts, videoId))
         IN  IF UrlOverride(savedData, u)
               THEN Synthetic(UrlTimeSeconds(u.t))
             ELSE IF /\ savedData.duration # 0
                     /\ Gt(savedData.time, Sub(savedData.duration, 30))
               THEN Synthetic(0)
             ELSE savedData

ManagerLoad(ts, videoId) == ManagerLoadAt(ts, videoId, url)

\* State.updateVideoState()
UpdatedVideoState ==
    IF ~video.present THEN videoState
    ELSE [lastTime |-> Floor(video.currentTime), isPaused |-> video.paused,
          duration |-> OrZero(video.duration), title |-> DocTitle]

----------------------------------------------------------------------------
(* The settings bag; values a user can configure in the settings panel *)

DefaultSettings ==
    [autoSave |-> TRUE, autoResume |-> TRUE, saveOnPause |-> TRUE,
     smartTimestampHandling |-> TRUE, removeTimestampFromURL |-> FALSE,
     restoreNotifications |-> TRUE,
     minSaveInterval |-> 1, maxStoredTimestamps |-> 2]

InitialVideoState == [lastTime |-> 0, isPaused |-> TRUE, duration |-> 0, title |-> ""]

NoVideo == [present |-> FALSE, currentTime |-> 0, paused |-> TRUE, duration |-> NaN]

IdleProg == [phase |-> "harness"]
NoTimers == <<>>

----------------------------------------------------------------------------
(* Store harness of the first script body: saveTimestamp and loadTimestamp *)
(* called with arbitrary arguments, as their callers (buttons, hotkeys,    *)
(* scheduler, restoration paths) may call them.                            *)

SaveTimes == {NaN, 0 - 5, 0, 100}
HarnessDuration == 120

HarnessVideos ==
    {NoVideo} \cup {[present |-> TRUE, currentTime |-> 0, paused |-> p, duration |-> HarnessDuration] :
                    p \in BOOLEAN}

PlainUrl == [v |-> "a", hasT |-> FALSE, t |-> <<>>]

SavedAts(s) == {s[i].savedAt : i \in 1..Len(s)}

\* what the last operation did: its arguments, its outcome, the savedAt of
\* the entries its clean-up dropped and kept, and what a load returned
HistStore(op, id, time, force, r, result, after) ==
    [op |-> op, id |-> id, time |-> time, force |-> force, outcome |-> r.outcome,
     cleaned |-> r.cleaned, changed |-> (op # "none" /\ r.outcome # "" /\ r.ts # timestamps),
     evictedAt |-> {r.from[i].savedAt : i \in {j \in 1..Len(r.from) : r.from[j].id \notin Ids(r.kept)}},
     keptAt |-> SavedAts(r.kept),
     result |-> result, after |-> after]

NoSave == SaveResult(<<>>, "", NoDefer, FALSE, <<>>, <<>>)

HistIdle(op) == HistStore(op, NoId, 0, FALSE, NoSave, Null, Null)

StoreSettings ==
    {[DefaultSettings EXCEPT !.maxStoredTimestamps = m, !.saveOnPause = sp] :
        m \in {1, 2}, sp \in BOOLEAN}

InitStore ==
    /\ settings \in StoreSettings
    /\ timestamps = <<>>
    /\ now = StartNow
    /\ url = PlainUrl
    /\ video = NoVideo
    /\ pendingSaves = <<>>
    /\ videoState = InitialVideoState
    /\ prog = IdleProg
    /\ timers = NoTimers
    /\ hist = HistIdle("none")

\* time passes
Tick ==
    /\ now + TickMs <= StartNow + (MaxTicks * TickMs)
    /\ now' = now + TickMs
    /\ hist' = HistIdle("tick")
    /\ UNCHANGED <<settings, timestamps, url, video, pendingSaves, videoState, prog, timers>>

\* the page attaches, removes, plays or pauses the video element
SetVideo ==
    /\ \E v \in HarnessVideos : v # video /\ video' = v
    /\ hist' = HistIdle("env")
    /\ UNCHANGED <<settings, timestamps, now, url, pendingSaves, videoState, prog, timers>>

\* a call of saveTimestamp(videoId, time, force)
CallSaveTimestamp ==
    \E id \in VideoIds, t \in SaveTimes, f \in BOOLEAN :
        LET r == SaveTimestamp(timestamps, id, t, f, 0)
        IN  /\ Len(pendingSaves) + Len(r.defer) <= MaxPendingSaves
            /\ timestamps' = r.ts
            /\ pendingSaves' = pendingSaves \o r.defer
            /\ hist' = HistStore("saveTimestamp", id, t, f, r, Null, Null)
            /\ UNCHANGED <<settings, now, url, video, videoState, prog, timers>>

\* the 1500 ms retry of a forced save that had to clean up first
FireDeferredSave ==
    /\ pendingSaves # <<>>
    /\ LET p == Head(pendingSaves)
           r == SaveTimestamp(timestamps, p.id, p.time, p.force, 0)
       IN  /\ timestamps' = r.ts
           /\ pendingSaves' = Tail(pendingSaves) \o r.defer
           /\ hist' = HistStore("retry", p.id, p.time, p.force, r, Null, Null)
    /\ UNCHANGED <<settings, now, url, video, videoState, prog, timers>>

\* the forced save that immediately precedes the current operation, if any
PrecedingForcedSave ==
    IF hist.op \in {"saveTimestamp", "managerSave"} /\ hist.force
    THEN [op |-> hist.op, id |-> hist.id, time |-> hist.time, outcome |-> hist.outcome]
    ELSE Null

\* a call of loadTimestamp(videoId)
CallLoadTimestamp ==
    \E id \in VideoIds :
        /\ hist' = HistStore("loadTimestamp", id, 0, FALSE, NoSave,
                             LoadTimestamp(timestamps, id), PrecedingForcedSave)
        /\ UNCHANGED <<settings, timestamps, now, url, video, pendingSaves, videoState, prog, timers>>

NextStore ==
    \/ Tick
    \/ SetVideo
    \/ CallSaveTimestamp
    \/ FireDeferredSave
    \/ CallLoadTimestamp

SpecStore == InitStore /\ [][NextStore]_vars

----------------------------------------------------------------------------
(* Store harness of the second script body: TimestampManager *)

\* a call of TimestampManager.save(videoId, time, force)
CallManagerSave ==
    \E id \in VideoIds, t \in SaveTimes, f \in BOOLEAN :
        LET r == ManagerSave(timestamps, id, t, f)
        IN  /\ timestamps' = r.ts
            /\ hist' = HistStore("managerSave", id, t, f, r, Null, Null)
            /\ UNCHANGED <<settings, now, url, video, pendingSaves, videoState, prog, timers>>

\* State.updateVideoState() of the second script body
UpdateVideoState ==
    /\ UpdatedVideoState # videoState
    /\ videoState' = UpdatedVideoState
    /\ hist' = HistIdle("env")
    /\ UNCHANGED <<settings, timestamps, now, url, video, pendingSaves, prog, timers>>

\* a call of TimestampManager.load(videoId)
CallManagerLoad ==
    \E id \in VideoIds :
        /\ hist' = HistStore("managerLoad", id, 0, FALSE, NoSave,
                             ManagerLoad(timestamps, id), PrecedingForcedSave)
        /\ UNCHANGED <<settings, timestamps, now, url, video, pendingSaves, videoState, prog, timers>>

NextManager ==
    \/ Tick
    \/ SetVideo
    \/ UpdateVideoState
    \/ CallManagerSave
    \/ CallManagerLoad

SpecManager == InitStore /\ [][NextManager]_vars

----------------------------------------------------------------------------
(* Load harness: loadTimestamp and TimestampManager.load applied to one    *)
(* stored record, for every combination of stored position, URL time       *)
(* parameter, smart-handling setting and presence of the video element.    *)

\* stored [time, duration] pairs a save can have written
LoadRecords ==
    { <<100, 600>>, <<500, 520>>, <<570, 600>>, <<571, 600>>, <<100, 0>>, <<0, 600>> }

\* time parameters: the text, whether it has the <H>h<M>m<S>s format, and
\* the seconds that format denotes
UrlTimeCases ==
    { [t |-> <<Num(140), Chr("s")>>, wellFormed |-> TRUE, seconds |-> 140],
      [t |-> <<Num(115), Chr("s")>>, wellFormed |-> TRUE, seconds |-> 115],
      [t |-> <<Num(130), Chr("s")>>, wellFormed |-> TRUE, seconds |-> 130],
      [t |-> <<Num(131), Chr("s")>>, wellFormed |-> TRUE, seconds |-> 131],
      [t |-> <<Num(510), Chr("s")>>, wellFormed |-> TRUE, seconds |-> 510],
      [t |-> <<Num(2), Chr("m"), Num(20), Chr("s")>>, wellFormed |-> TRUE, seconds |-> 140],
      [t |-> <<Num(1), Chr("h"), Num(1), Chr("m"), Num(5), Chr("s")>>, wellFormed |-> TRUE, seconds |-> 3665],
      [t |-> <<Num(140)>>, wellFormed |-> FALSE, seconds |-> 0],
      [t |-> <<Chr("a"), Chr("b"), Chr("c")>>, wellFormed |-> FALSE, seconds |-> 0],
      [t |-> <<Chr("x"), Num(90), Chr("s")>>, wellFormed |-> FALSE, seconds |-> 0] }

LoadUrls ==
    {PlainUrl, [v |-> "a", hasT |-> TRUE, t |-> <<>>]}
        \cup {[v |-> "a", hasT |-> TRUE, t |-> c.t] : c \in UrlTimeCases}

LoadVideo == [present |-> TRUE, currentTime |-> 0, paused |-> FALSE, duration |-> 600]

HistLoad(op, result) == [op |-> op, result |-> result]

InitLoad ==
    /\ settings \in {[DefaultSettings EXCEPT !.smartTimestampHandling = sm] : sm \in BOOLEAN}
    /\ \E rec \in LoadRecords :
          timestamps = <<[id |-> "a", time |-> rec[1], savedAt |-> StartNow,
                          title |-> "a", duration |-> rec[2]]>>
    /\ now = StartNow + TickMs
    /\ url \in LoadUrls
    /\ video \in {NoVideo, LoadVideo}
    /\ pendingSaves = <<>>
    /\ videoState = InitialVideoState
    /\ prog = IdleProg
    /\ timers = NoTimers
    /\ hist = HistLoad("none", Null)

\* mutant: load persists the record it returns
PersistedWithResult(ts, videoId, result) ==
    IF result = Null THEN ts
    ELSE Put(ts, [Lookup(ts, videoId) EXCEPT !.time = result.time,
                                             !.savedAt = result.savedAt])

\* the persisted map after a load of videoId that returned result: both
\* loads call GM_getValue and never GM_setValue, and build the synthetic
\* record as a new object
Persisted(ts, videoId, result) == ts

ApplyLoadTimestamp ==
    /\ hist' = HistLoad("loadTimestamp", LoadTimestamp(timestamps, "a"))
    /\ timestamps' = Persisted(timestamps, "a", LoadTimestamp(timestamps, "a"))
    /\ UNCHANGED <<settings, now, url, video, pendingSaves, videoState, prog, timers>>

ApplyManagerLoad ==
    /\ hist' = HistLoad("managerLoad", ManagerLoad(timestamps, "a"))
    /\ timestamps' = Persisted(timestamps, "a", ManagerLoad(timestamps, "a"))
    /\ UNCHANGED <<settings, now, url, video, pendingSaves, videoState, prog, timers>>

NextLoad ==
    \/ ApplyLoadTimestamp
    \/ ApplyManagerLoad

SpecLoad == InitLoad /\ [][NextLoad]_vars

----------------------------------------------------------------------------
(* The running script (first script body): module-level variables, the     *)
(* closure variables of startIntervals and setupMutationObserver, and the  *)
(* pending one-shot timers.  Timer delays are abstracted: a pending timer  *)
(* may fire at any later step.                                             *)
(*                                                                         *)
(* The page has one video element, attached or not; cachedVideo is a       *)
(* reference to it or null, and document.contains(cachedVideo) is          *)
(* video.present.                                                          *)

\* URL changes in one run, and pending processVideoTimestamp timers
MaxNavigations == 1
MaxPvtTimers == 1
\* saveAttemptThrottle
SaveAttemptThrottle == 2000
\* the step of the clock of the running script: one video check interval
PollMs == 2000
\* videoCheckCount stops counting here
CheckCountCap == 1

PageDuration == 600
PlayTimes == {0, 40}

\* module-level variables (lines 170-171) and the closures' initial values
\* (lines 5404-5414, 5660-5662), before initializeSystem has run
BootProg ==
    [phase |-> "boot",
     currentVideoId |-> NoId, lastSaveTime |-> 0,
     lastSaveAttemptTime |-> 0, lastVideoCheckId |-> NoId, videoCheckCount |-> 0,
     cachedVideo |-> FALSE, lastVideoTime |-> 0, lastVideoPaused |-> TRUE,
     checkInterval |-> 0, autoSaveInterval |-> FALSE,
     lastUrl |-> PlainUrl, lastVideoId |-> NoId, navigationTimerId |-> "none",
     urlCheckInterval |-> FALSE, observers |-> FALSE, listeners |-> FALSE]

\* pending one-shot timers: the settle callbacks and the processVideoTimestamp
\* callbacks with the video id their closure captured, and flags for the rest
BootTimers ==
    [nav |-> <<>>, pvt |-> <<>>, init |-> FALSE, initialCheck |-> FALSE,
     navCheck |-> FALSE, notify |-> FALSE, observer |-> FALSE]

\* what one handler did: the ids its restoration loads asked for, whether
\* it wrote a record, whether it cancelled a pending settle callback,
\* whether its save evaluation saw the video go from playing to paused,
\* the video id and the time of the record it wrote, whether it called
\* saveTimestamp; whether the storage (GM_getValue, GM_setValue) and the URL
\* rewrite (history.replaceState) work during the handler, whether an
\* exception is propagating, and whether a catch block of the handler caught
\* one; the cleanup handles that throw when performCleanup invokes them, and
\* the handles it invoked
NoObs == [loads |-> <<>>, wrote |-> FALSE, cancelled |-> FALSE, pauseSeen |-> FALSE,
          saved |-> Null, tried |-> FALSE,
          storageOk |-> TRUE, rewriteOk |-> TRUE, threw |-> FALSE, caught |-> FALSE,
          failing |-> {}, invoked |-> {}]

World == [ts |-> timestamps, url |-> url, vid |-> video, pend |-> pendingSaves,
          p |-> prog, tm |-> timers, ob |-> NoObs]

\* getVideoId(): the id of the URL, and the URL after the optional rewrite
GetVideoId(u) ==
    IF u.v = NoId THEN [id |-> NoId, url |-> u]
    ELSE IF settings.removeTimestampFromURL /\ u.hasT
      THEN [id |-> u.v, url |-> [u EXCEPT !.hasT = FALSE, !.t = <<>>]]
    ELSE [id |-> u.v, url |-> u]

\* a statement throws: the rest of the function is skipped
Thrown(w) == [w EXCEPT !.ob.threw = TRUE]

\* mutant: no try block around the handler's body
NoTryCatch(w) == w

\* try { ... } catch (error) { console.error(...) } around a handler's body
TryCatch(w) ==
    IF w.ob.threw THEN [w EXCEPT !.ob.threw = FALSE, !.ob.caught = TRUE] ELSE w

\* the call of getVideoId() by a handler: window.history.replaceState is
\* called without a try block, and the handler goes on with the id only if
\* it returns
Detected(w) ==
    IF w.url.v # NoId /\ settings.removeTimestampFromURL /\ w.url.hasT /\ ~w.ob.rewriteOk
    THEN Thrown(w)
    ELSE [w EXCEPT !.url = GetVideoId(w.url).url]

\* saveTimestamp called by a handler of the running script; GM_getValue and
\* GM_setValue are called without a try block
Saved(w, videoId, time, force) ==
    LET r == SaveTimestamp(w.ts, videoId, time, force, 0)
    IN  IF ~w.ob.storageOk THEN [Thrown(w) EXCEPT !.ob.tried = TRUE]
        ELSE [w EXCEPT !.ts = r.ts, !.pend = w.pend \o r.defer,
                       !.ob.wrote = (w.ob.wrote \/ r.outcome = "written"),
                       !.ob.tried = TRUE,
                       !.ob.saved = IF r.outcome = "written"
                                    THEN [id |-> videoId, time |-> time] ELSE w.ob.saved]

\* loadTimestamp called by a restoration path; GM_getValue is called without
\* a try block
Loaded(w, videoId) ==
    IF ~w.ob.storageOk THEN Thrown(w)
    ELSE [w EXCEPT !.ob.loads = Append(w.ob.loads, videoId)]

\* mutant: the restoration leaves the position alone
NotSeeked(w, time) == w

\* video.currentTime = savedData.time
Seeked(w, time) == [w EXCEPT !.vid.currentTime = time]

\* mutant: a stored record is resumed whatever the setting says
ResumeAnyway(savedData) == savedData # Null

\* savedData && settings.autoResume: the gate of the automatic restorations
AutoResume(savedData) == savedData # Null /\ settings.autoResume

\* processVideoTimestamp(videoId, video, isInitialLoad)
ProcessVideoTimestamp(w, videoId, hasVideo, isInitialLoad) ==
    IF videoId = NoId \/ ~hasVideo THEN w
    ELSE LET savedData == LoadTimestampAt(w.ts, videoId, w.url)
             w1 == Loaded(w, videoId)
             currentTime == w.vid.currentTime
             threshold == IF isInitialLoad THEN 3 ELSE 5
         IN  IF w1.ob.threw THEN TryCatch(w1)
             ELSE IF ~AutoResume(savedData) THEN w1
             ELSE IF currentTime < threshold
                     /\ Gt(Abs(Sub(currentTime, savedData.time)), threshold)
               THEN [Seeked(w1, savedData.time) EXCEPT
                        !.tm.notify = (w1.tm.notify \/ settings.restoreNotifications)]
             ELSE w1

\* the callback of initializeWithVideo's 2500 ms timer
InitializeWithVideoCallback(w) ==
    LET g == GetVideoId(w.url)
        w0 == Detected(w)
    IN  IF w0.ob.threw THEN TryCatch(w0)
        ELSE IF ~(w.vid.present /\ g.id # NoId) THEN w0
        ELSE LET w1 == Loaded([w0 EXCEPT !.p.currentVideoId = g.id], g.id)
                 savedData == LoadTimestampAt(w0.ts, g.id, w0.url)
             IN  IF w1.ob.threw THEN TryCatch(w1)
                 ELSE IF AutoResume(savedData)
                    /\ Gt(Abs(Sub(w.vid.currentTime, savedData.time)), 3)
                 THEN Seeked(w1, savedData.time)
                 ELSE w1

\* initialCheck()
InitialCheck(w) ==
    LET g == GetVideoId(w.url)
        w0 == Detected(w)
    IN  IF w0.ob.threw THEN TryCatch(w0)
        ELSE IF g.id = NoId THEN w0
        ELSE IF ~w.vid.present THEN [w0 EXCEPT !.tm.initialCheck = TRUE]
        ELSE [w0 EXCEPT !.p.currentVideoId = g.id, !.tm.init = TRUE]

\* scheduleNextCheck(): the interval the video check is rescheduled with
ActiveInterval(p) ==
    LET baseInterval == 2000
        doubled == IF baseInterval * 2 < 5000 THEN baseInterval * 2 ELSE 5000
    IN  IF p.videoCheckCount > 5 /\ p.lastVideoCheckId = p.currentVideoId
        THEN doubled ELSE baseInterval

ScheduleNextCheck(w) == [w EXCEPT !.p.checkInterval = ActiveInterval(w.p)]

\* mutant: the dead zone without its end
InMeaningfulPartNoEnd(currentTime, duration) == currentTime > 30

\* currentTime > 30 && currentTime < cachedVideo.duration - 30
InMeaningfulPart(currentTime, duration) ==
    currentTime > 30 /\ Lt(currentTime, Sub(duration, 30))

\* the cached video element, re-queried when missing or detached
Recached(w) ==
    IF ~w.p.cachedVideo \/ ~w.vid.present
    THEN [w EXCEPT !.p.cachedVideo = w.vid.present]
    ELSE w

\* mutant: every poll counts as a meaningful change
AnyStateChanged(currentTime, isPaused, p) == TRUE

\* timeChanged || playStateChanged, against the state the last evaluation
\* cached
StateChanged(currentTime, isPaused, p) ==
    LET timeChanged == Ge(Abs(Sub(currentTime, p.lastVideoTime)), 5)
        playStateChanged == isPaused # p.lastVideoPaused
    IN  timeChanged \/ playStateChanged

\* the save evaluation of checkCurrentVideo for the video of the last poll
SameVideoCheck(w, videoId) ==
    IF now - w.p.lastSaveAttemptTime < SaveAttemptThrottle THEN w
    ELSE LET w1 == [w EXCEPT !.p.lastSaveAttemptTime = now]
         IN  IF ~w1.p.cachedVideo THEN w1
             ELSE LET currentTime == Floor(w.vid.currentTime)
                      isPaused == w.vid.paused
                      w2 == IF /\ StateChanged(currentTime, isPaused, w.p)
                               /\ ~isPaused /\ currentTime > 0
                               /\ InMeaningfulPart(currentTime, w.vid.duration)
                            THEN Saved(w1, videoId, currentTime, FALSE)
                            ELSE w1
                  IN  IF w2.ob.threw THEN w2
                      ELSE
                      [w2 EXCEPT !.p.lastVideoTime = currentTime,
                                 !.p.lastVideoPaused = isPaused,
                                 !.ob.pauseSeen = (isPaused /\ ~w.p.lastVideoPaused)]

\* checkCurrentVideo(); videoCheckCount stops counting at cap
CheckCurrentVideoUpTo(w, cap) ==
    LET g == GetVideoId(w.url)
        w0 == Detected(w)
    IN  IF w0.ob.threw THEN TryCatch(w0)
        ELSE IF g.id = NoId
          THEN IF w.p.currentVideoId # NoId
               THEN [w0 EXCEPT !.p.currentVideoId = NoId, !.p.cachedVideo = FALSE]
               ELSE w0
        ELSE LET w1 == Recached(w0)
                 w2 == IF g.id = w1.p.lastVideoCheckId
                       THEN [w1 EXCEPT !.p.videoCheckCount =
                                IF w1.p.videoCheckCount < cap
                                THEN w1.p.videoCheckCount + 1 ELSE cap]
                       ELSE [w1 EXCEPT !.p.videoCheckCount = 0, !.p.lastVideoCheckId = g.id]
             IN  IF g.id = w2.p.currentVideoId THEN TryCatch(SameVideoCheck(w2, g.id))
                 ELSE LET w3 == ScheduleNextCheck(
                                  [w2 EXCEPT !.p.currentVideoId = g.id,
                                             !.p.videoCheckCount = 0,
                                             !.p.lastVideoCheckId = g.id])
                      IN  IF ~w3.p.cachedVideo THEN w3
                          ELSE [w3 EXCEPT !.tm.pvt = Append(w3.tm.pvt, g.id)]

CheckCurrentVideo(w) == CheckCurrentVideoUpTo(w, CheckCountCap)

\* performAutoSave()
PerformAutoSave(w) ==
    IF ~settings.autoSave THEN w
    ELSE IF now - w.p.lastSaveTime < settings.minSaveInterval * 1000 THEN w
    ELSE LET g == IF w.p.currentVideoId # NoId
                  THEN [id |-> w.p.currentVideoId, url |-> w.url]
                  ELSE GetVideoId(w.url)
             w0 == IF w.p.currentVideoId # NoId THEN w ELSE Detected(w)
         IN  IF w0.ob.threw THEN TryCatch(w0)
             ELSE IF g.id = NoId THEN w0
             ELSE LET w1 == Recached(w0)
                      currentTime == w.vid.currentTime
                      w2 == Saved(w1, g.id, currentTime, FALSE)
                  IN  IF /\ w1.p.cachedVideo /\ currentTime > 0 /\ ~w.vid.paused
                         /\ InMeaningfulPart(currentTime, w.vid.duration)
                      THEN IF w2.ob.threw THEN TryCatch(w2)
                           ELSE [w2 EXCEPT !.p.lastSaveTime = now]
                      ELSE w1

\* startIntervals()
StartIntervals(w) ==
    [ScheduleNextCheck(CheckCurrentVideo(w)) EXCEPT !.p.autoSaveInterval = TRUE]

\* mutant: a confirmed change that leaves the pending settle timer running
KeepNavigationTimer(w) == w

\* if (navigationTimerId) clearTimeout(navigationTimerId)
ClearNavigationTimer(w) ==
    IF w.p.navigationTimerId = "live"
    THEN [w EXCEPT !.tm.nav = SubSeq(w.tm.nav, 1, Len(w.tm.nav) - 1),
                   !.p.navigationTimerId = "stale",
                   !.ob.cancelled = TRUE]
    ELSE w

\* handleNavigationChange()
HandleNavigationChange(w) ==
    LET currentUrl == w.url
        g == GetVideoId(w.url)
        w0 == Detected(w)
    IN  IF w0.ob.threw THEN w0
        ELSE IF currentUrl # w.p.lastUrl \/ (g.id # NoId /\ g.id # w.p.lastVideoId)
        THEN LET w1 == ClearNavigationTimer(
                          [w0 EXCEPT !.p.lastUrl = currentUrl, !.p.lastVideoId = g.id])
             IN  IF g.id # NoId
                 THEN [w1 EXCEPT !.tm.nav = Append(w1.tm.nav, g.id),
                                 !.p.navigationTimerId = "live"]
                 ELSE w1
        ELSE w0

\* the settle callback scheduled by handleNavigationChange for videoId
SettleCallback(w, videoId) ==
    IF ~w.vid.present THEN w
    ELSE LET savedData == LoadTimestampAt(w.ts, videoId, w.url)
             w1 == Loaded(w, videoId)
             currentTime == w.vid.currentTime
         IN  IF w1.ob.threw THEN w1
             ELSE IF ~AutoResume(savedData) THEN w1
             ELSE IF currentTime < 5 /\ Gt(Abs(Sub(currentTime, savedData.time)), 3)
               THEN [Seeked(w1, savedData.time) EXCEPT
                        !.tm.notify = (w1.tm.notify \/ settings.restoreNotifications)]
             ELSE w1

\* the save button and the save hotkey
ManualSave(w) ==
    LET g == GetVideoId(w.url)
        w0 == Detected(w)
    IN  IF w0.ob.threw THEN w0
        ELSE IF w.vid.present /\ g.id # NoId
        THEN Saved(w0, g.id, w.vid.currentTime, TRUE)
        ELSE w0

\* the restore button and the restore hotkey
ManualRestore(w) ==
    LET g == GetVideoId(w.url)
        w0 == Detected(w)
    IN  IF w0.ob.threw THEN w0
        ELSE IF ~(w.vid.present /\ g.id # NoId) THEN w0
        ELSE LET savedData == LoadTimestampAt(w0.ts, g.id, w0.url)
                 w1 == Loaded(w0, g.id)
             IN  IF w1.ob.threw \/ savedData = Null THEN w1
                 ELSE Seeked(w1, savedData.time)

\* the retry of a forced save, 1500 ms after its clean-up
DeferredSave(w) ==
    LET d == Head(w.pend)
    IN  Saved([w EXCEPT !.pend = Tail(w.pend)], d.id, d.time, d.force)

\* cleanupRegistry after initializeSystem: the cleanup of startIntervals, of
\* setupMutationObserver and of observePlayerChanges, in the order of the
\* pushes
CleanupRegistry == <<"intervals", "navigation", "player">>

\* the body of a cleanup handle; removeEventListener is given
\* handleNavigationChange, which is not the function that was added, and
\* removes nothing
Cleanup(handle, w) ==
    CASE handle = "intervals" ->
           [w EXCEPT !.p.checkInterval = 0, !.p.autoSaveInterval = FALSE,
                     !.p.cachedVideo = FALSE]
      [] handle = "navigation" ->
           ClearNavigationTimer([w EXCEPT !.p.observers = FALSE,
                                          !.p.urlCheckInterval = FALSE])
      [] handle = "player" -> [w EXCEPT !.tm.observer = FALSE]

\* cleanup(): a failing handle throws at its first statement
Invoked(handle, w) ==
    LET w1 == [w EXCEPT !.ob.invoked = @ \cup {handle}]
    IN  IF handle \in w.ob.failing THEN Thrown(w1) ELSE Cleanup(handle, w1)

\* an iteration of cleanupRegistry.forEach without its try block
UnguardedCleanup(handle, w) == IF w.ob.threw THEN w ELSE Invoked(handle, w)

\* an iteration of cleanupRegistry.forEach: try { cleanup() } catch
GuardedCleanup(handle, w) == IF w.ob.threw THEN w ELSE TryCatch(Invoked(handle, w))

\* performCleanup()
PerformCleanup(w) ==
    LET w1 == GuardedCleanup(CleanupRegistry[1], w)
        w2 == GuardedCleanup(CleanupRegistry[2], w1)
        w3 == GuardedCleanup(CleanupRegistry[3], w2)
    IN  [w3 EXCEPT !.p.phase = "stopped"]

\* setupMutationObserver()
SetupMutationObserver(w) ==
    [w EXCEPT !.p.lastUrl = w.url, !.p.lastVideoId = NoId, !.p.navigationTimerId = "none",
              !.p.observers = TRUE, !.p.listeners = TRUE, !.p.urlCheckInterval = TRUE,
              !.tm.navCheck = TRUE]

\* initializeSystem(); observePlayerChanges finds the player container (its
\* retries are the subject of SpecRetries)
InitializeSystem(w) ==
    [SetupMutationObserver(StartIntervals(InitialCheck(w)))
        EXCEPT !.tm.observer = TRUE, !.p.phase = "running"]

----------------------------------------------------------------------------
(* The running script on a page: the default specification *)

HomeUrl == [v |-> NoId, hasT |-> FALSE, t |-> <<>>]
WatchUrl(id) == [v |-> id, hasT |-> FALSE, t |-> <<>>]
WatchUrlAt(id, t) == [v |-> id, hasT |-> TRUE, t |-> t]

\* locations the page can be at
PageUrls == {HomeUrl, WatchUrl("a"), WatchUrl("b")}

\* locations the script can be started at
StartUrls == {HomeUrl, WatchUrl("a")}

\* the video element as the page first shows it
PageVideos ==
    {NoVideo} \cup {[present |-> TRUE, currentTime |-> 0, paused |-> p, duration |-> PageDuration] :
                    p \in BOOLEAN}

\* the persisted map left by an earlier visit
PageStores == {<<[id |-> "a", time |-> 100, savedAt |-> 1000, title |-> "a",
                        duration |-> PageDuration]>>}

\* the settings of the page: auto-save on or off; the resume notification,
\* which only shows a message, is off
PageSettings ==
    {[DefaultSettings EXCEPT !.autoSave = a, !.restoreNotifications = FALSE] : a \in BOOLEAN}

\* the last handler of the script and what it did; the number of URL
\* changes; whether the page was quiet at the last URL change and, if it
\* was, the restoration loads and the raw navigation signals since
HistProg(op, id, w, attempts, signals, navs, quiet) ==
    [op |-> op, id |-> id, wrote |-> w.ob.wrote, cancelled |-> w.ob.cancelled,
     pauseSeen |-> w.ob.pauseSeen, saved |-> w.ob.saved, tried |-> w.ob.tried,
     caught |-> w.ob.caught, escaped |-> w.ob.threw, invoked |-> w.ob.invoked,
     attempts |-> attempts, signals |-> signals, navs |-> navs, quiet |-> quiet]

\* a counter of the history, which stops counting at 2
Counted(n) == IF n > 2 THEN 2 ELSE n

\* restoration loads for the video of the page, since the last URL change
Attempts(w, n) ==
    Counted(n + Cardinality({i \in 1..Len(w.ob.loads) : w.ob.loads[i] = w.url.v}))

BootWorld(ts, u, v) ==
    [ts |-> ts, url |-> u, vid |-> v, pend |-> <<>>, p |-> BootProg, tm |-> BootTimers,
     ob |-> NoObs]

\* the script has run initializeSystem on a page at one of the urls, showing
\* one of the videos, with one of the stores
StartedWith(urls, videos, stores) ==
    /\ now = StartNow
    /\ videoState = InitialVideoState
    /\ video \in videos
    /\ \E u \in urls, ts \in stores :
          /\ url = GetVideoId(u).url
          /\ LET w == InitializeSystem(BootWorld(ts, u, video))
             IN  /\ timestamps = w.ts
                 /\ url = w.url
                 /\ pendingSaves = w.pend
                 /\ prog = w.p
                 /\ timers = w.tm
                 /\ hist = HistProg("initializeSystem", NoId, w, 0, 0, 0, FALSE)

Started(urls) == StartedWith(urls, PageVideos, PageStores)

Init ==
    /\ settings \in PageSettings
    /\ Started(StartUrls)

\* the state after a handler of the script ran to completion
Ran(op, id, signal, w) ==
    /\ Len(w.pend) <= MaxPendingSaves
    /\ Len(w.tm.pvt) <= MaxPvtTimers
    /\ timestamps' = w.ts
    /\ url' = w.url
    /\ video' = w.vid
    /\ pendingSaves' = w.pend
    /\ prog' = w.p
    /\ timers' = w.tm
    /\ hist' = IF hist.quiet
               THEN HistProg(op, id, w, Attempts(w, hist.attempts),
                             Counted(hist.signals + signal), hist.navs, TRUE)
               ELSE HistProg(op, id, w, 0, 0, hist.navs, FALSE)
    /\ UNCHANGED <<settings, now, videoState>>

\* every timer of an earlier page has fired, and the watcher and the
\* scheduler have seen the page the viewer is on
Quiet ==
    /\ timers = [BootTimers EXCEPT !.observer = timers.observer]
    /\ pendingSaves = <<>>
    /\ prog.lastUrl = url
    /\ prog.lastVideoId = url.v
    /\ prog.currentVideoId = url.v

\* the page did something the script does not handle; the history keeps
\* the last handler of the script
Env(attempts, signals, navs, quiet) ==
    /\ hist' = [hist EXCEPT !.attempts = attempts, !.signals = signals, !.navs = navs,
                            !.quiet = quiet]
    /\ UNCHANGED <<settings, timestamps, pendingSaves, videoState, prog, timers>>

\* time passes
Clock ==
    /\ now + PollMs <= StartNow + (MaxTicks * PollMs)
    /\ now' = now + PollMs
    /\ Env(hist.attempts, hist.signals, hist.navs, hist.quiet)
    /\ UNCHANGED <<url, video>>

\* YouTube navigates (pushState); a new video starts from its beginning
NavigateTo(urls, max, quiet) ==
    /\ hist.navs < max
    /\ \E u \in urls :
          /\ u # url
          /\ url' = u
          /\ video' = IF video.present /\ u.v # NoId /\ u.v # url.v
                      THEN [video EXCEPT !.currentTime = 0] ELSE video
    /\ Env(0, 0, hist.navs + 1, quiet)
    /\ UNCHANGED now

\* a navigation after which the history counts signals and restorations, when
\* the page was quiet
NavigateWithin(urls, max) == NavigateTo(urls, max, Quiet)

Navigate == NavigateWithin(PageUrls, MaxNavigations)

\* the player attaches the video element
VideoElement ==
    /\ \E v \in PageVideos : v.present /\ ~video.present /\ video' = v
    /\ Env(hist.attempts, hist.signals, hist.navs, hist.quiet)
    /\ UNCHANGED <<now, url>>

\* the viewer plays or pauses
PlayPause ==
    /\ video.present
    /\ video' = [video EXCEPT !.paused = ~video.paused]
    /\ Env(hist.attempts, hist.signals, hist.navs, hist.quiet)
    /\ UNCHANGED <<now, url>>

\* playback advances to one of the positions
PlaybackTo(times) ==
    /\ video.present /\ ~video.paused
    /\ \E t \in times : t > video.currentTime /\ video' = [video EXCEPT !.currentTime = t]
    /\ Env(hist.attempts, hist.signals, hist.navs, hist.quiet)
    /\ UNCHANGED <<now, url>>

Playback == PlaybackTo(PlayTimes)

\* a title or content mutation reaches an observer
ObserverSignal ==
    /\ prog.observers
    /\ Ran("other", NoId, 1, HandleNavigationChange(World))

\* popstate or hashchange; the listeners are anonymous functions, which
\* removeEventListener(handleNavigationChange) does not remove
WindowEvent ==
    /\ prog.listeners
    /\ Ran("other", NoId, 1, HandleNavigationChange(World))

\* the 2000 ms URL poll
UrlCheck ==
    /\ prog.urlCheckInterval
    /\ Ran("other", NoId, IF url # prog.lastUrl THEN 1 ELSE 0,
           IF url # prog.lastUrl THEN HandleNavigationChange(World) ELSE World)

\* setTimeout(handleNavigationChange, 1000) of setupMutationObserver
InitialNavigationCheck ==
    /\ timers.navCheck
    /\ Ran("other", NoId, 0,
           HandleNavigationChange([World EXCEPT !.tm.navCheck = FALSE]))

\* a pending settle callback fires
Settle ==
    \E i \in 1..Len(timers.nav) :
        LET videoId == timers.nav[i]
            w == [World EXCEPT
                    !.tm.nav = SubSeq(timers.nav, 1, i - 1) \o SubSeq(timers.nav, i + 1, Len(timers.nav)),
                    !.p.navigationTimerId =
                        IF i = Len(timers.nav) /\ prog.navigationTimerId = "live"
                        THEN "stale" ELSE prog.navigationTimerId]
        IN  Ran("settle", videoId, 0, SettleCallback(w, videoId))

\* the video check interval
VideoCheck ==
    /\ prog.checkInterval > 0
    /\ Ran("checkCurrentVideo", NoId, 0, CheckCurrentVideo(World))

\* the 1000 ms timer of a newly detected video
ProcessVideo ==
    /\ timers.pvt # <<>>
    /\ LET videoId == Head(timers.pvt)
           w == [World EXCEPT !.tm.pvt = Tail(timers.pvt)]
       IN  Ran("other", NoId, 0,
               ProcessVideoTimestamp(w, videoId, prog.cachedVideo, FALSE))

\* the auto-save interval
AutoSave ==
    /\ prog.autoSaveInterval
    /\ Ran("performAutoSave", NoId, 0, PerformAutoSave(World))

\* the 2500 ms timer of initializeWithVideo
InitialRestore ==
    /\ timers.init
    /\ Ran("other", NoId, 0,
           InitializeWithVideoCallback([World EXCEPT !.tm.init = FALSE]))

\* the 1000 ms retry of initialCheck
InitialCheckRetry ==
    /\ timers.initialCheck
    /\ Ran("other", NoId, 0, InitialCheck([World EXCEPT !.tm.initialCheck = FALSE]))

Next ==
    \/ Clock
    \/ Navigate
    \/ VideoElement
    \/ PlayPause
    \/ Playback
    \/ ObserverSignal
    \/ WindowEvent
    \/ UrlCheck
    \/ InitialNavigationCheck
    \/ Settle
    \/ VideoCheck
    \/ ProcessVideo
    \/ AutoSave
    \/ InitialRestore
    \/ InitialCheckRetry

Spec == Init /\ [][Next]_vars

----------------------------------------------------------------------------
(* The navigation watcher on its own.  lastUrl, lastVideoId,              *)
(* navigationTimerId and the settle timers are private to                 *)
(* setupMutationObserver; the other handlers reach what the watcher reads *)
(* only through the URL rewrite of getVideoId, which is one of the URL    *)
(* changes of NavigateOften.                                              *)

MaxWatcherNavigations == 2

WatcherUrls == PageUrls \cup {WatchUrlAt("a", <<Num(140), Chr("s")>>)}

WatcherSettings ==
    {[DefaultSettings EXCEPT !.removeTimestampFromURL = r, !.restoreNotifications = FALSE] :
        r \in BOOLEAN}

InitWatcher ==
    /\ settings \in WatcherSettings
    /\ Started(WatcherUrls)

NavigateOften == NavigateWithin(WatcherUrls, MaxWatcherNavigations)

NextWatcher ==
    \/ NavigateOften
    \/ VideoElement
    \/ ObserverSignal
    \/ WindowEvent
    \/ UrlCheck
    \/ InitialNavigationCheck
    \/ Settle

SpecWatcher == InitWatcher /\ [][NextWatcher]_vars

----------------------------------------------------------------------------
(***************************************************************************)
(* The scheduler and the manual saves: the page shows a video, whose       *)
(* metadata may not be loaded yet, and the viewer seeks, plays, pauses      *)
(* and presses the save button or the save hotkey.  A seek stands for any   *)
(* change of the position, a restoration included.                          *)
(***************************************************************************)

\* positions of the playhead: inside the first 30 seconds, in the middle,
\* inside the last 30 seconds
SavePositions == {10, 40, PageDuration - 20}

\* the video element when the script starts: playing in the first 30 seconds
\* or in the middle; duration is NaN until the metadata loads
SaveVideos ==
    {[present |-> TRUE, currentTime |-> t, paused |-> FALSE, duration |-> d] :
        t \in {10, 40}, d \in {PageDuration, NaN}}

\* the persisted map: one record, or as many as maxStoredTimestamps
SaveStores ==
    {<<[id |-> "a", time |-> 100, savedAt |-> 1000, title |-> "a", duration |-> PageDuration]>>,
     <<[id |-> "b", time |-> 50, savedAt |-> 500, title |-> "b", duration |-> PageDuration],
       [id |-> "a", time |-> 100, savedAt |-> 1000, title |-> "a", duration |-> PageDuration]>>}

SaveSettings == {[DefaultSettings EXCEPT !.restoreNotifications = FALSE]}

InitSaves ==
    /\ settings \in SaveSettings
    /\ StartedWith({WatchUrl("a")}, SaveVideos, SaveStores)

\* the viewer seeks
Seek ==
    /\ video.present
    /\ \E t \in SavePositions : t # video.currentTime /\ video' = [video EXCEPT !.currentTime = t]
    /\ Env(hist.attempts, hist.signals, hist.navs, hist.quiet)
    /\ UNCHANGED <<now, url>>

\* the metadata of the video loads
LoadMetadata ==
    /\ video.present /\ video.duration = NaN
    /\ video' = [video EXCEPT !.duration = PageDuration]
    /\ Env(hist.attempts, hist.signals, hist.navs, hist.quiet)
    /\ UNCHANGED <<now, url>>

\* the viewer clicks the save button or presses the save hotkey
SaveButton ==
    /\ Len(pendingSaves) <= MaxPendingSaves
    /\ Ran("manualSave", NoId, 0, ManualSave(World))

\* the 1500 ms retry of a forced save fires
RetrySave ==
    /\ pendingSaves # <<>>
    /\ Ran("retry", NoId, 0, DeferredSave(World))

NextSaves ==
    \/ Clock
    \/ PlayPause
    \/ Seek
    \/ LoadMetadata
    \/ VideoCheck
    \/ AutoSave
    \/ SaveButton
    \/ RetrySave

SpecSaves == InitSaves /\ [][NextSaves]_vars

----------------------------------------------------------------------------
(***************************************************************************)
(* Restoration after a navigation, with the scheduling the browser          *)
(* guarantees: the 2000 ms URL poll keeps firing while its interval is set, *)
(* and a pending settle callback fires unless clearTimeout removed it.      *)
(***************************************************************************)

\* the stored position of video a: within 3 seconds of the beginning, or not
ResumeTimes == {2, 20}

ResumeStores ==
    {<<[id |-> "a", time |-> t, savedAt |-> 1000, title |-> "a", duration |-> PageDuration]>> :
        t \in ResumeTimes}

ResumeSettings == {[DefaultSettings EXCEPT !.restoreNotifications = FALSE]}

\* the video element is attached, playing or paused at the beginning
ResumeVideos == {v \in PageVideos : v.present}

\* positions of the playhead: the beginning, and past the first seconds
ResumePositions == {0, 10}

InitResume ==
    /\ settings \in ResumeSettings
    /\ StartedWith(StartUrls, ResumeVideos, ResumeStores)

\* a navigation; the history does not count what follows
NavigateOnce == NavigateTo(PageUrls, MaxNavigations, FALSE)

\* playback leaves the first seconds
PlayOn == PlaybackTo(ResumePositions)

NextResume ==
    \/ NavigateOnce
    \/ PlayOn
    \/ ObserverSignal
    \/ UrlCheck
    \/ InitialNavigationCheck
    \/ Settle
    \/ VideoCheck
    \/ ProcessVideo
    \/ InitialRestore

SpecResume ==
    /\ InitResume
    /\ [][NextResume]_vars
    /\ WF_vars(UrlCheck)
    /\ WF_vars(Settle)

----------------------------------------------------------------------------
(***************************************************************************)
(* Shutdown: the page fires beforeunload, or the caller of initializeSystem *)
(* calls the cleanup it returned, while timers of the script are pending.   *)
(***************************************************************************)

ShutdownSettings == {[DefaultSettings EXCEPT !.restoreNotifications = FALSE]}

\* the persisted map holds as many records as maxStoredTimestamps
ShutdownStores == {ts \in SaveStores : Len(ts) = DefaultSettings.maxStoredTimestamps}

InitShutdown ==
    /\ settings \in ShutdownSettings
    /\ StartedWith(StartUrls, PageVideos, ShutdownStores)

\* beforeunload
Unload ==
    /\ prog.phase = "running"
    /\ Ran("performCleanup", NoId, 0, PerformCleanup(World))

NextShutdown ==
    \/ NavigateOnce
    \/ VideoElement
    \/ ObserverSignal
    \/ WindowEvent
    \/ UrlCheck
    \/ InitialNavigationCheck
    \/ Settle
    \/ VideoCheck
    \/ ProcessVideo
    \/ AutoSave
    \/ InitialRestore
    \/ InitialCheckRetry
    \/ SaveButton
    \/ RetrySave
    \/ Unload

SpecShutdown == InitShutdown /\ [][NextShutdown]_vars

----------------------------------------------------------------------------
(***************************************************************************)
(* The store harness of the first script body with maxStoredTimestamps set  *)
(* to 0, which the settings panel describes as unlimited.  The store holds  *)
(* the records written while the limit was positive.                        *)
(***************************************************************************)

UnlimitedSettings ==
    {[DefaultSettings EXCEPT !.maxStoredTimestamps = 0, !.saveOnPause = sp] : sp \in BOOLEAN}

UnlimitedStores == {<<>>} \cup SaveStores

InitUnlimited ==
    /\ settings \in UnlimitedSettings
    /\ timestamps \in UnlimitedStores
    /\ now = StartNow
    /\ url = PlainUrl
    /\ video = NoVideo
    /\ pendingSaves = <<>>
    /\ videoState = InitialVideoState
    /\ prog = IdleProg
    /\ timers = NoTimers
    /\ hist = HistIdle("none")

SpecUnlimited == InitUnlimited /\ [][NextStore]_vars

----------------------------------------------------------------------------
(***************************************************************************)
(* The two save functions with a storage that may fail: GM_getValue or      *)
(* GM_setValue throws.  A call ends by returning a value or by throwing.    *)
(***************************************************************************)

\* how a call ended: its return value, whether it threw, and whether the
\* persisted map holds the record of this call
Outcome(ts, returned, threw, wrote) ==
    [ts |-> ts, returned |-> returned, threw |-> threw, wrote |-> wrote]

\* safeExecute(operation): the value of the operation, or null when it throws
SafeExecute(ok, value) == IF ok THEN [null |-> FALSE, value |-> value] ELSE Null

\* TimestampManager.save(videoId, time, force); safeExecute turns a failed
\* read into null, on which timestamps[videoId] throws a TypeError that the
\* catch block answers with false, and swallows a failed write
ManagerSaveOutcome(ts, videoId, time, force, readOk, writeOk) ==
    LET r == ManagerSave(ts, videoId, time, force)
    IN  IF r.outcome = "invalid" THEN Outcome(ts, "false", FALSE, FALSE)
        ELSE IF SafeExecute(readOk, ts).null THEN Outcome(ts, "false", FALSE, FALSE)
        ELSE IF r.outcome # "written" THEN Outcome(ts, "false", FALSE, FALSE)
        ELSE IF SafeExecute(writeOk, r.ts).null THEN Outcome(ts, "true", FALSE, FALSE)
        ELSE Outcome(r.ts, "true", FALSE, TRUE)

\* saveTimestamp(videoId, time, force): no try block and no return value
SaveTimestampOutcome(ts, videoId, time, force, readOk, writeOk) ==
    LET r == SaveTimestamp(ts, videoId, time, force, 0)
    IN  IF r.outcome = "noid" THEN Outcome(ts, "undefined", FALSE, FALSE)
        ELSE IF ~readOk THEN Outcome(ts, "undefined", TRUE, FALSE)
        ELSE IF r.outcome \in {"paused", "throttled", "invalid"}
          THEN Outcome(ts, "undefined", FALSE, FALSE)
        ELSE IF ~writeOk \/ r.outcome = "overflow" THEN Outcome(ts, "undefined", TRUE, FALSE)
        ELSE Outcome(r.ts, "undefined", FALSE, r.outcome = "written")

HistOutcome(op, id, o) ==
    [op |-> op, id |-> id, returned |-> o.returned, threw |-> o.threw, wrote |-> o.wrote]

StorageSettings == {DefaultSettings}

InitStorage ==
    /\ settings \in StorageSettings
    /\ timestamps = <<>>
    /\ now = StartNow
    /\ url = PlainUrl
    /\ video = NoVideo
    /\ pendingSaves = <<>>
    /\ videoState = InitialVideoState
    /\ prog = IdleProg
    /\ timers = NoTimers
    /\ hist = HistIdle("none")

\* a call of TimestampManager.save, the storage working or failing
CallManagerSaveOnStorage ==
    \E id \in VideoIds, t \in SaveTimes, f \in BOOLEAN, readOk \in BOOLEAN, writeOk \in BOOLEAN :
        LET o == ManagerSaveOutcome(timestamps, id, t, f, readOk, writeOk)
        IN  /\ timestamps' = o.ts
            /\ hist' = HistOutcome("managerSave", id, o)
            /\ UNCHANGED <<settings, now, url, video, pendingSaves, videoState, prog, timers>>

\* a call of saveTimestamp at a store with room, the storage working or
\* failing
CallSaveTimestampOnStorage ==
    \E id \in VideoIds, t \in SaveTimes, f \in BOOLEAN, readOk \in BOOLEAN, writeOk \in BOOLEAN :
        LET o == SaveTimestampOutcome(timestamps, id, t, f, readOk, writeOk)
        IN  /\ Len(timestamps) < settings.maxStoredTimestamps
            /\ timestamps' = o.ts
            /\ hist' = HistOutcome("saveTimestamp", id, o)
            /\ UNCHANGED <<settings, now, url, video, pendingSaves, videoState, prog, timers>>

NextStorage ==
    \/ Tick
    \/ SetVideo
    \/ UpdateVideoState
    \/ CallManagerSaveOnStorage
    \/ CallSaveTimestampOnStorage

SpecStorage == InitStorage /\ [][NextStorage]_vars

----------------------------------------------------------------------------
(***************************************************************************)
(* Deleting a record: TimestampManager.delete of the second script body    *)
(* and the clear button of the first, on a store filled by saves.           *)
(***************************************************************************)

\* mutant: delete answers true whether the record exists or not
ManagerDeleteAlwaysTrue(ts, videoId) ==
    [ts |-> Remove(ts, videoId), returned |-> TRUE]

\* TimestampManager.delete(videoId)
ManagerDelete(ts, videoId) ==
    IF videoId = NoId THEN [ts |-> ts, returned |-> FALSE]
    ELSE IF HasId(ts, videoId) THEN [ts |-> Remove(ts, videoId), returned |-> TRUE]
    ELSE [ts |-> ts, returned |-> FALSE]

\* the click handler of the clear button, on the page of videoId
ClearSaved(ts, videoId) == IF videoId # NoId THEN Remove(ts, videoId) ELSE ts

HistDelete(op, id, returned) == [op |-> op, id |-> id, returned |-> returned]

DeleteSettings == {DefaultSettings}

InitDelete ==
    /\ settings \in DeleteSettings
    /\ timestamps = <<>>
    /\ now = StartNow
    /\ url = PlainUrl
    /\ video = NoVideo
    /\ pendingSaves = <<>>
    /\ videoState = InitialVideoState
    /\ prog = IdleProg
    /\ timers = NoTimers
    /\ hist = HistIdle("none")

\* a call of TimestampManager.delete(videoId)
CallManagerDelete ==
    \E id \in VideoIds \cup {NoId} :
        LET r == ManagerDelete(timestamps, id)
        IN  /\ timestamps' = r.ts
            /\ hist' = HistDelete("managerDelete", id, r.returned)
            /\ UNCHANGED <<settings, now, url, video, pendingSaves, videoState, prog, timers>>

\* a click on the clear button, on the page of a video or on another page
ClickClear ==
    \E id \in VideoIds \cup {NoId} :
        /\ timestamps' = ClearSaved(timestamps, id)
        /\ hist' = HistDelete("clearButton", id, FALSE)
        /\ UNCHANGED <<settings, now, url, video, pendingSaves, videoState, prog, timers>>

NextDelete ==
    \/ Tick
    \/ CallManagerSave
    \/ CallManagerDelete
    \/ ClickClear
    \/ CallManagerLoad
    \/ CallLoadTimestamp

SpecDelete == InitDelete /\ [][NextDelete]_vars

----------------------------------------------------------------------------
(***************************************************************************)
(* The adaptive video check: the same video stays on the page for many      *)
(* polls, and videoCheckCount counts them.  setInterval keeps firing the    *)
(* video check while the interval is set.                                   *)
(***************************************************************************)

\* videoCheckCount stops counting here, past the 5 of scheduleNextCheck
PollCountCap == 7

PollingSettings == {[DefaultSettings EXCEPT !.restoreNotifications = FALSE]}

InitPolling ==
    /\ settings \in PollingSettings
    /\ StartedWith(StartUrls, PageVideos, PageStores)

\* the video check interval fires
Poll ==
    /\ prog.checkInterval > 0
    /\ Ran("checkCurrentVideo", NoId, 0, CheckCurrentVideoUpTo(World, PollCountCap))

NextPolling ==
    \/ Clock
    \/ NavigateOnce
    \/ VideoElement
    \/ PlayOn
    \/ Poll
    \/ ProcessVideo
    \/ InitialRestore
    \/ InitialCheckRetry

SpecPolling ==
    /\ InitPolling
    /\ [][NextPolling]_vars
    /\ WF_vars(Poll)

----------------------------------------------------------------------------
(***************************************************************************)
(* The two save functions side by side, called with and without force      *)
(* while the video plays or is paused, with saveOnPause on or off.          *)
(***************************************************************************)

GateSettings == {[DefaultSettings EXCEPT !.saveOnPause = sp] : sp \in BOOLEAN}

InitGates ==
    /\ settings \in GateSettings
    /\ timestamps = <<>>
    /\ now = StartNow
    /\ url = PlainUrl
    /\ video = NoVideo
    /\ pendingSaves = <<>>
    /\ videoState = InitialVideoState
    /\ prog = IdleProg
    /\ timers = NoTimers
    /\ hist = HistIdle("none")

NextGates ==
    \/ SetVideo
    \/ UpdateVideoState
    \/ CallSaveTimestamp
    \/ FireDeferredSave
    \/ CallManagerSave

SpecGates == InitGates /\ [][NextGates]_vars

----------------------------------------------------------------------------
(***************************************************************************)
(* The running script with a failing environment: during a handler the      *)
(* storage capability (GM_getValue, GM_setValue) or the non-reloading URL   *)
(* rewrite (history.replaceState) may throw.  An exception that no catch    *)
(* block of the handler stops leaves the timer callback or event handler.   *)
(***************************************************************************)

\* what fails during one handler: the storage, the URL rewrite, or both
Faults ==
    {f \in [storageOk : BOOLEAN, rewriteOk : BOOLEAN] : ~(f.storageOk /\ f.rewriteOk)}

Faulty(f) == [World EXCEPT !.ob.storageOk = f.storageOk, !.ob.rewriteOk = f.rewriteOk]

\* the time parameter is removed from the URL; the store is full
FaultSettings ==
    {[DefaultSettings EXCEPT !.removeTimestampFromURL = TRUE, !.restoreNotifications = FALSE]}

FaultUrls == {HomeUrl, WatchUrl("a"), WatchUrlAt("a", <<Num(140), Chr("s")>>)}

InitFaults ==
    /\ settings \in FaultSettings
    /\ StartedWith(StartUrls, ResumeVideos, ShutdownStores)

NavigateToFaultUrl == NavigateTo(FaultUrls, MaxNavigations, FALSE)

\* the video check interval fires while something fails
FaultyVideoCheck ==
    /\ prog.checkInterval > 0
    /\ \E f \in Faults : Ran("checkCurrentVideo", NoId, 0, CheckCurrentVideo(Faulty(f)))

\* the auto-save interval fires while something fails
FaultyAutoSave ==
    /\ prog.autoSaveInterval
    /\ \E f \in Faults : Ran("performAutoSave", NoId, 0, PerformAutoSave(Faulty(f)))

\* a mutation observer callback or a popstate / hashchange listener runs
\* while something fails
FaultySignal ==
    /\ prog.observers \/ prog.listeners
    /\ \E f \in Faults : Ran("signal", NoId, 1, HandleNavigationChange(Faulty(f)))

\* the 2000 ms URL poll sees a new URL while something fails
FaultyUrlCheck ==
    /\ prog.urlCheckInterval
    /\ url # prog.lastUrl
    /\ \E f \in Faults : Ran("urlCheck", NoId, 1, HandleNavigationChange(Faulty(f)))

\* the pending settle callback fires while something fails
FaultySettle ==
    /\ timers.nav # <<>>
    /\ \E f \in Faults :
          LET videoId == timers.nav[Len(timers.nav)]
              w == [Faulty(f) EXCEPT
                       !.tm.nav = SubSeq(timers.nav, 1, Len(timers.nav) - 1),
                       !.p.navigationTimerId =
                           IF prog.navigationTimerId = "live"
                           THEN "stale" ELSE prog.navigationTimerId]
          IN  Ran("settle", videoId, 0, SettleCallback(w, videoId))

\* the 1500 ms retry of a forced save fires while something fails
FaultyRetry ==
    /\ pendingSaves # <<>>
    /\ \E f \in Faults : Ran("retry", NoId, 0, DeferredSave(Faulty(f)))

NextFaults ==
    \/ NavigateToFaultUrl
    \/ Playback
    \/ VideoCheck
    \/ AutoSave
    \/ ObserverSignal
    \/ UrlCheck
    \/ InitialNavigationCheck
    \/ Settle
    \/ ProcessVideo
    \/ InitialRestore
    \/ SaveButton
    \/ RetrySave
    \/ FaultyVideoCheck
    \/ FaultyAutoSave
    \/ FaultySignal
    \/ FaultyUrlCheck
    \/ FaultySettle
    \/ FaultyRetry

SpecFaults == InitFaults /\ [][NextFaults]_vars

----------------------------------------------------------------------------
(***************************************************************************)
(* The waits for a missing element, on a watch page whose video element,    *)
(* player container and notification container are not there yet: the       *)
(* retry of initialCheck, retrySetup of observePlayerChanges and            *)
(* showNotificationWithRetry.  A pending retry timer fires.                 *)
(***************************************************************************)

\* the count of the runs of initialCheck stops counting here
InitialCheckCap == 7

\* the page: the video element, the player container (#movie_player) and
\* the notification container, each there or not
RetryPages ==
    {[present |-> FALSE, currentTime |-> 0, paused |-> TRUE, duration |-> 0,
      player |-> pl, container |-> c] : pl \in BOOLEAN, c \in BOOLEAN}

\* the pending timers of the script, the closure variables of
\* observePlayerChanges and the retry count of the notification
RetryTimers ==
    [nav |-> <<>>, pvt |-> <<>>, init |-> FALSE, initialCheck |-> FALSE,
     navCheck |-> FALSE, notify |-> FALSE,
     retrySetup |-> FALSE, retryCount |-> 0, observer |-> FALSE,
     notification |-> "idle", notificationRetryCount |-> 0]

\* observePlayerChanges(): setupObserver, and the first retry timer when the
\* player container is missing
ObservePlayerChanges(tm, page) ==
    IF page.player THEN [tm EXCEPT !.observer = TRUE]
    ELSE [tm EXCEPT !.retryCount = 0, !.retrySetup = TRUE]

\* retrySetup(), maxRetries = 5
RetrySetup(tm, page) ==
    LET retryCount == tm.retryCount + 1
    IN  [tm EXCEPT !.retryCount = retryCount,
                   !.observer = page.player,
                   !.retrySetup = (~page.player /\ retryCount < 5)]

\* showNotificationWithRetry(retryCount, maxRetries = 3)
ShowNotificationWithRetry(tm, retryCount, page) ==
    IF ~page.container
    THEN IF retryCount < 3
         THEN [tm EXCEPT !.notification = "retry", !.notificationRetryCount = retryCount + 1]
         ELSE [tm EXCEPT !.notification = "rejected"]
    ELSE [tm EXCEPT !.notification = "shown"]

HistRetry(op, initialChecks) == [op |-> op, initialChecks |-> initialChecks]

RetrySettings == {DefaultSettings}

InitRetries ==
    /\ settings \in RetrySettings
    /\ timestamps = <<>>
    /\ now = StartNow
    /\ url = WatchUrl("a")
    /\ video \in RetryPages
    /\ pendingSaves = <<>>
    /\ videoState = InitialVideoState
    /\ LET w == InitialCheck([BootWorld(<<>>, WatchUrl("a"), video) EXCEPT !.tm = RetryTimers])
       IN  /\ prog = w.p
           /\ timers = ObservePlayerChanges(w.tm, video)
    /\ hist = HistRetry("initializeSystem", 1)

\* the page attaches the video element, the player container or the
\* notification container
Attach ==
    /\ \/ ~video.present /\ video' = [video EXCEPT !.present = TRUE]
       \/ ~video.player /\ video' = [video EXCEPT !.player = TRUE]
       \/ ~video.container /\ video' = [video EXCEPT !.container = TRUE]
    /\ hist' = [hist EXCEPT !.op = "env"]
    /\ UNCHANGED <<settings, timestamps, now, url, pendingSaves, videoState, prog, timers>>

\* setTimeout(initialCheck, 1000) fires
RetryInitialCheck ==
    /\ timers.initialCheck
    /\ LET w == InitialCheck([World EXCEPT !.tm.initialCheck = FALSE])
       IN  /\ prog' = w.p
           /\ timers' = w.tm
    /\ hist' = HistRetry("initialCheck",
                         IF hist.initialChecks < InitialCheckCap
                         THEN hist.initialChecks + 1 ELSE InitialCheckCap)
    /\ UNCHANGED <<settings, timestamps, now, url, video, pendingSaves, videoState>>

\* setTimeout(retrySetup, ...) fires
RetryPlayerObserver ==
    /\ timers.retrySetup
    /\ timers' = RetrySetup(timers, video)
    /\ hist' = [hist EXCEPT !.op = "retrySetup"]
    /\ UNCHANGED <<settings, timestamps, now, url, video, pendingSaves, videoState, prog>>

\* the script shows a notification
ShowNotification ==
    /\ timers.notification = "idle"
    /\ timers' = ShowNotificationWithRetry(timers, 0, video)
    /\ hist' = [hist EXCEPT !.op = "showNotification"]
    /\ UNCHANGED <<settings, timestamps, now, url, video, pendingSaves, videoState, prog>>

\* the 100 ms retry of showNotificationWithRetry fires
RetryNotification ==
    /\ timers.notification = "retry"
    /\ timers' = ShowNotificationWithRetry(timers, timers.notificationRetryCount, video)
    /\ hist' = [hist EXCEPT !.op = "showNotificationWithRetry"]
    /\ UNCHANGED <<settings, timestamps, now, url, video, pendingSaves, videoState, prog>>

NextRetries ==
    \/ Attach
    \/ RetryInitialCheck
    \/ RetryPlayerObserver
    \/ ShowNotification
    \/ RetryNotification

SpecRetries ==
    /\ InitRetries
    /\ [][NextRetries]_vars
    /\ WF_vars(RetryInitialCheck)
    /\ WF_vars(RetryPlayerObserver)
    /\ WF_vars(RetryNotification)

----------------------------------------------------------------------------
(***************************************************************************)
(* SpecCleanup: the running script, shut down by performCleanup while any  *)
(* of the registered cleanup handles throws.                               *)
(***************************************************************************)

InitCleanup ==
    /\ settings \in ShutdownSettings
    /\ StartedWith(StartUrls, ResumeVideos, ShutdownStores)

\* beforeunload, with the handles of `failing` throwing
FaultyUnload ==
    /\ prog.phase = "running"
    /\ \E failing \in SUBSET {CleanupRegistry[i] : i \in DOMAIN CleanupRegistry} :
          Ran("performCleanup", NoId, 0, PerformCleanup([World EXCEPT !.ob.failing = failing]))

NextCleanup ==
    \/ NavigateOnce
    \/ ObserverSignal
    \/ WindowEvent
    \/ UrlCheck
    \/ InitialNavigationCheck
    \/ Settle
    \/ VideoCheck
    \/ ProcessVideo
    \/ AutoSave
    \/ InitialRestore
    \/ FaultyUnload

SpecCleanup == InitCleanup /\ [][NextCleanup]_vars

----------------------------------------------------------------------------
(***************************************************************************)
(* SpecAutoResume: the restorations of the running script with autoResume  *)
(* on or off, and the viewer's restore button.                             *)
(***************************************************************************)

AutoResumeSettings ==
    {[DefaultSettings EXCEPT !.autoResume = r, !.restoreNotifications = FALSE] : r \in BOOLEAN}

InitAutoResume ==
    /\ settings \in AutoResumeSettings
    /\ StartedWith(StartUrls, ResumeVideos, ResumeStores)

\* the viewer clicks the restore button or presses the restore hotkey
RestoreButton ==
    /\ prog.phase = "running"
    /\ Ran("manualRestore", NoId, 0, ManualRestore(World))

NextAutoResume ==
    \/ NavigateOnce
    \/ PlayOn
    \/ ObserverSignal
    \/ UrlCheck
    \/ InitialNavigationCheck
    \/ Settle
    \/ VideoCheck
    \/ ProcessVideo
    \/ InitialRestore
    \/ RestoreButton

SpecAutoResume == InitAutoResume /\ [][NextAutoResume]_vars

----------------------------------------------------------------------------
(* The store harness with the scheduling the browser guarantees: a pending *)
(* 1500 ms retry of a forced save fires.                                   *)

SpecStoreRetry == InitStore /\ [][NextStore]_vars /\ WF_vars(FireDeferredSave)

----------------------------------------------------------------------------
(* Properties of the store (SpecStore, SpecManager) *)

\* C1: after any sequence of saves the number of records in the persisted
\* map never exceeds maxStoredTimestamps (both store implementations).
C1_CountWithinMax == Len(timestamps) <= settings.maxStoredTimestamps

\* C2: whenever a save evicts records, every evicted record has a savedAt
\* less than or equal to the savedAt of every record the eviction retains.
C2_EvictsOldestFirst ==
    hist.cleaned => \A e \in hist.evictedAt : \A k \in hist.keptAt : e <= k

\* a clean-up dropped a record strictly older than one it kept
C2_EvictedOlderThanKept ==
    /\ hist.op = "saveTimestamp"
    /\ hist.cleaned
    /\ \E e \in hist.evictedAt : \E k \in hist.keptAt : e < k

\* C3: save(id, t, force = true) followed immediately by load(id) returns a
\* record whose time is t, unless the reconciliation of load applies (the
\* URL override, or t within 30 s of the recorded duration, then 0); at
\* every fill level of the store.
C3_RoundTrip ==
    (/\ hist.op \in {"loadTimestamp", "managerLoad"}
     /\ hist.after # Null
     /\ hist.after.id = hist.id
     /\ ~IsNaN(hist.after.time) /\ hist.after.time >= 0)
    => /\ hist.result # Null
       /\ \/ hist.result.time = hist.after.time
          \/ UrlOverride([time |-> hist.after.time], url)
          \/ /\ hist.result.time = 0
             /\ RecordedDuration # 0
             /\ hist.after.time > RecordedDuration - 30

----------------------------------------------------------------------------
(* Properties of load (SpecLoad) *)

StoredRecord == Value(timestamps[1])

IsLoad == hist.op \in {"loadTimestamp", "managerLoad"}

HasUrlCase == url.hasT /\ \E c \in UrlTimeCases : c.t = url.t
UrlCase == CHOOSE c \in UrlTimeCases : c.t = url.t

\* |urlTime - stored.time| for a time parameter of the documented format
UrlDistance ==
    IF UrlCase.seconds >= StoredRecord.time
    THEN UrlCase.seconds - StoredRecord.time
    ELSE StoredRecord.time - UrlCase.seconds

\* the stored position lies within 30 seconds of the stored duration
NearEndRecord == StoredRecord.duration # 0 /\ StoredRecord.time > StoredRecord.duration - 30

\* with smart handling disabled the URL time is never used
SmartOffIgnoresUrl ==
    (IsLoad /\ ~settings.smartTimestampHandling)
    => /\ hist.result \in {StoredRecord, Synthetic(0)}
       /\ (hist.result # StoredRecord => NearEndRecord)

UrlOverrideTaken ==
    (IsLoad /\ settings.smartTimestampHandling /\ HasUrlCase /\ UrlCase.wellFormed
       /\ UrlDistance > 30)
    => hist.result.time = UrlCase.seconds /\ hist.result = Synthetic(UrlCase.seconds)

\* C5 as stated: with smart handling and a stored record, load returns
\* urlTime when |urlTime - stored.time| > 30 and the stored record unchanged
\* when |urlTime - stored.time| <= 30; with smart handling off the URL time
\* is never used.
C5_UrlOverrideOrStored ==
    /\ UrlOverrideTaken
    /\ (IsLoad /\ settings.smartTimestampHandling /\ HasUrlCase /\ UrlCase.wellFormed
          /\ UrlDistance <= 30)
       => hist.result = StoredRecord
    /\ SmartOffIgnoresUrl

\* C5 amended: when |urlTime - stored.time| <= 30 the URL time is not used
\* and load returns the stored record unchanged unless the stored position
\* is within 30 s of the stored duration, where the near-end rule decides.
C5_UrlOverrideOrFallThrough ==
    /\ UrlOverrideTaken
    /\ (IsLoad /\ settings.smartTimestampHandling /\ HasUrlCase /\ UrlCase.wellFormed
          /\ UrlDistance <= 30)
       => /\ hist.result \in {StoredRecord, Synthetic(0)}
          /\ (~NearEndRecord => hist.result = StoredRecord)
    /\ SmartOffIgnoresUrl

\* stored 100 / duration 600 loaded under ?t=140s gave 140
C5_Url140Overrides100 ==
    /\ hist.op = "loadTimestamp"
    /\ settings.smartTimestampHandling
    /\ url.t = <<Num(140), Chr("s")>>
    /\ StoredRecord.time = 100 /\ StoredRecord.duration = 600
    /\ hist.result.time = 140

\* the claim's notion of "no URL override applies"
NoUrlOverrideApplies ==
    \/ ~settings.smartTimestampHandling
    \/ ~url.hasT
    \/ (HasUrlCase /\ UrlCase.wellFormed /\ UrlDistance <= 30)

\* C6: when no URL override applies, load returns time 0 whenever the stored
\* time is within 30 s of the stored duration, whether or not a video
\* element is attached, and the stored record unmodified when the stored
\* time is more than 30 s before the duration.
C6_NearEndDependsOnRecordOnly ==
    (IsLoad /\ NoUrlOverrideApplies)
    => /\ NearEndRecord => hist.result.time = 0
       /\ (StoredRecord.duration # 0 /\ StoredRecord.time < StoredRecord.duration - 30)
             => hist.result = StoredRecord

\* C7: a time parameter that does not have the <H>h<M>m<S>s format is treated
\* as if no time parameter were present.
C7_MalformedUrlTimeIgnored ==
    (IsLoad /\ HasUrlCase /\ ~UrlCase.wellFormed)
    => hist.result = (IF hist.op = "loadTimestamp"
                      THEN LoadTimestampAt(timestamps, "a", PlainUrl)
                      ELSE ManagerLoadAt(timestamps, "a", PlainUrl))
----------------------------------------------------------------------------
(* Properties of the running script (Spec, SpecWatcher) *)

\* C8: at most one settle callback of the navigation watcher is pending;
\* a pending callback is the one of the last confirmed change, so a second
\* confirmed change has cancelled the earlier callback and restoration is
\* attempted only for the last navigation; a callback that fired leaves no
\* other callback behind it.
C8_OneSettlePending ==
    /\ Len(timers.nav) <= 1
    /\ \A i \in 1..Len(timers.nav) :
          timers.nav[i] = prog.lastVideoId /\ prog.navigationTimerId = "live"
    /\ hist.op = "settle" => (hist.id = prog.lastVideoId /\ timers.nav = <<>>)

\* a confirmed change to another video arrived while a settle callback was
\* pending: the callback was cancelled and the one of the new video is pending
C8_SecondChangeCancelsPending ==
    /\ hist.cancelled
    /\ hist.navs >= 1
    /\ timers.nav = <<url.v>>

\* C9: after one URL change on a page where every earlier timer has fired,
\* announced by two navigation signals, at most one restoration path loads
\* the record of the new video.
C9_OneRestorationPerNavigation ==
    (hist.navs >= 1 /\ hist.quiet /\ hist.signals = 2) => hist.attempts <= 1

\* C10: while autoSave is off, neither performAutoSave nor the save
\* evaluation of checkCurrentVideo writes a record.
C10_NoSchedulerWriteWhenAutoSaveOff ==
    ~(/\ ~settings.autoSave
      /\ hist.op \in {"checkCurrentVideo", "performAutoSave"}
      /\ hist.wrote)

----------------------------------------------------------------------------
(* Properties of the save gates *)

\* C11: the minimum-save-interval throttle is global: a non-forced save
\* never writes a record less than minSaveInterval seconds after the last
\* successful save of any other video.
C11_ThrottleIsGlobal ==
    (/\ hist.op = "saveTimestamp"
     /\ ~hist.force
     /\ ~(video.present /\ video.paused)
     /\ hist.outcome = "written")
    => \A i \in 1..Len(timestamps) :
          timestamps[i].id # hist.id
             => now - timestamps[i].savedAt >= settings.minSaveInterval * 1000

\* the position of the video element is outside the first and the last 30
\* seconds of the video
Saveable(v) == InMeaningfulPart(v.currentTime, v.duration)

\* C12: with saveOnPause enabled, when the video check sees the active video
\* go from playing to paused at a saveable position, it writes a record with
\* the current position.
C12_PauseIsSaved ==
    (/\ settings.saveOnPause
     /\ hist.op = "checkCurrentVideo"
     /\ hist.pauseSeen
     /\ Saveable(video))
    => /\ hist.wrote
       /\ HasId(timestamps, prog.currentVideoId)
       /\ Lookup(timestamps, prog.currentVideoId).time = video.currentTime

\* C13: a record written by a scheduler save (the video check or the
\* auto-save tick) has a time with 30 < time < duration - 30, for the
\* duration of the video element at the save; a manual save (save button or
\* save hotkey) with a video on a watch page is never rejected for its
\* position: it writes the current position, or, when the store is full,
\* queues that position for the retry; the retry, when the store has room,
\* writes the queued position
C13_SaveStep ==
    /\ ((VideoCheck \/ AutoSave) /\ hist'.wrote)
          => /\ hist'.saved # Null
             /\ hist'.saved.time > 30
             /\ ~IsNaN(video.duration)
             /\ hist'.saved.time < video.duration - 30
             /\ HasId(timestamps', hist'.saved.id)
             /\ Lookup(timestamps', hist'.saved.id).time = hist'.saved.time
    /\ (SaveButton /\ video.present /\ GetVideoId(url).id # NoId)
          => LET videoId == GetVideoId(url).id
             IN  \/ /\ hist'.saved = [id |-> videoId, time |-> video.currentTime]
                    /\ HasId(timestamps', videoId)
                    /\ Lookup(timestamps', videoId).time = video.currentTime
                 \/ /\ Len(timestamps) >= settings.maxStoredTimestamps
                    /\ pendingSaves' = Append(pendingSaves,
                                              [id |-> videoId, time |-> video.currentTime,
                                               force |-> TRUE])
    /\ (RetrySave /\ Len(timestamps) < settings.maxStoredTimestamps)
          => /\ HasId(timestamps', Head(pendingSaves).id)
             /\ Lookup(timestamps', Head(pendingSaves).id).time = Head(pendingSaves).time

C13_ManualSaveNearEnd ==
    /\ hist.op = "manualSave"
    /\ hist.saved = [id |-> url.v, time |-> PageDuration - 20]
    /\ HasId(timestamps, url.v)
    /\ Lookup(timestamps, url.v).time = PageDuration - 20

----------------------------------------------------------------------------
(* Properties of the restoration (SpecResume) *)

\* the page has just navigated, for the last time, to a video with a stored
\* record, which is not in its last 30 seconds; the watcher has not seen the
\* new URL yet; auto-resume is on, the video element is attached and
\* playback is within the first seconds
NavigatedToStored ==
    /\ hist.navs = MaxNavigations
    /\ url # prog.lastUrl
    /\ url.v # NoId
    /\ ~url.hasT
    /\ HasId(timestamps, url.v)
    /\ ~Gt(Lookup(timestamps, url.v).time, Sub(Lookup(timestamps, url.v).duration, 30))
    /\ settings.autoResume
    /\ video.present
    /\ video.currentTime < 3

\* the current time is the stored time, or playback has left the first
\* seconds
RestoredOrPlayedOn ==
    \/ /\ HasId(timestamps, url.v)
       /\ video.currentTime = Lookup(timestamps, url.v).time
    \/ video.currentTime >= 5

----------------------------------------------------------------------------
(* Properties of the shutdown (SpecShutdown) *)

\* a timer of the script fires: the video check, the auto-save tick, the URL
\* poll, a settle callback, a delayed restoration, the initial navigation
\* check, the retry of initialCheck, the retry of a deferred save
TimerFires ==
    \/ VideoCheck
    \/ AutoSave
    \/ UrlCheck
    \/ Settle
    \/ ProcessVideo
    \/ InitialRestore
    \/ InitialNavigationCheck
    \/ InitialCheckRetry
    \/ RetrySave

\* C15: after performCleanup has run, no timer of the script fires
C15_NoTimerFiresAfterCleanup == [][prog.phase = "stopped" => ~TimerFires]_vars

----------------------------------------------------------------------------
(* Properties of the capacity (SpecStore, SpecManager) *)

\* the ids of the store that a step removed
Evicted == Ids(timestamps) \ Ids(timestamps')

\* C16: a call of saveTimestamp that passes the gates at a store of exactly
\* maxStoredTimestamps records evicts exactly one record, the one with the
\* smallest savedAt, when its video id is new, and evicts no other video's
\* record when its video id is already stored
C16_SaveAtFullStore ==
    (/\ hist'.op = "saveTimestamp"
     /\ hist'.outcome \in {"written", "deferred"}
     /\ Len(timestamps) = settings.maxStoredTimestamps)
    => IF HasId(timestamps, hist'.id)
       THEN Evicted \subseteq {hist'.id}
       ELSE /\ Cardinality(Evicted) = 1
            /\ \A e \in Evicted : \A i \in 1..Len(timestamps) :
                  Lookup(timestamps, e).savedAt <= timestamps[i].savedAt

C16_EvictsExactlyOne == [][C16_SaveAtFullStore]_vars

\* C17: with maxStoredTimestamps = 0 a call of saveTimestamp that passes the
\* pause gate, the throttle and the validation writes its record, and
\* evicts nothing
C17_ZeroMeansUnlimited ==
    (/\ settings.maxStoredTimestamps = 0
     /\ hist.op \in {"saveTimestamp", "retry"}
     /\ hist.outcome \notin {"noid", "paused", "throttled", "invalid"})
    => /\ hist.outcome = "written"
       /\ ~hist.cleaned
       /\ hist.evictedAt = {}
       /\ HasId(timestamps, hist.id)

----------------------------------------------------------------------------
(* Properties of the return value (SpecStorage) *)

\* C18: a call of save returns true exactly when the persisted map holds the
\* record of this call, returns false otherwise, and never throws
C18_FaithfulOutcome ==
    hist.op \in {"managerSave", "saveTimestamp"}
    => /\ ~hist.threw
       /\ hist.returned = (IF hist.wrote THEN "true" ELSE "false")

----------------------------------------------------------------------------
(* Properties of delete (SpecDelete) *)

\* the records of the store, whatever their order
Records(ts) == {ts[i] : i \in 1..Len(ts)}

\* C19: delete(videoId) removes the record of videoId and returns true when
\* the record exists, returns false and leaves the store unchanged when it
\* does not; the clear button removes the record of the page's video; the
\* records of the other videos are unchanged, and a load of videoId that
\* follows returns null
C19_DeleteStep ==
    /\ hist'.op = "managerDelete"
          => /\ hist'.returned = (hist'.id \in Ids(timestamps))
             /\ Records(timestamps') = {e \in Records(timestamps) : e.id # hist'.id}
             /\ ~hist'.returned => timestamps' = timestamps
    /\ hist'.op = "clearButton"
          => Records(timestamps') = {e \in Records(timestamps) : e.id # hist'.id}
    /\ (/\ hist.op \in {"managerDelete", "clearButton"}
        /\ hist'.op \in {"managerLoad", "loadTimestamp"}
        /\ hist'.id = hist.id)
          => hist'.result = Null

C19_DeleteRemovesExactlyOne == [][C19_DeleteStep]_vars

\* delete removed a record, answered true, and left another video's record
C19_DeletedOneOfTwo ==
    /\ hist.op = "managerDelete"
    /\ hist.returned
    /\ ~HasId(timestamps, hist.id)
    /\ Len(timestamps) = 1

----------------------------------------------------------------------------
(* Properties of the atomicity of a save (SpecStore) *)

\* C20: while a save has evicted and not yet inserted, no load reads the
\* store and no other save changes it
C20_NothingInsideSave ==
    pendingSaves # <<>>
    => /\ hist'.op # "loadTimestamp"
       /\ ~(hist'.op = "saveTimestamp" /\ hist'.changed)

C20_EvictInsertAtomic == [][C20_NothingInsideSave]_vars

----------------------------------------------------------------------------
(* Properties of the adaptive video check (SpecPolling) *)

\* min(baseInterval * 2, 5000) for the default base interval
StableInterval == 4000

\* the video of the page has been seen by more than five consecutive polls
StableVideo ==
    /\ prog.videoCheckCount > 5
    /\ url.v # NoId
    /\ prog.lastVideoCheckId = url.v
    /\ prog.currentVideoId = url.v

----------------------------------------------------------------------------
(* Properties of the save evaluation of the video check (SpecSaves) *)

\* the video check runs for the video it saw at the last poll and calls
\* saveTimestamp
PollTriedSave ==
    /\ VideoCheck
    /\ url.v = prog.currentVideoId
    /\ hist'.tried

\* C22: a poll of checkCurrentVideo for the same video as the previous poll
\* attempts a save only if the playback time differs from the recorded time
\* (lastVideoTime) by at least 5 seconds or the paused flag differs from the
\* recorded one (lastVideoPaused); when neither changed it issues no save
C22_PollStep ==
    PollTriedSave =>
        \/ video.currentTime - prog.lastVideoTime >= 5
        \/ prog.lastVideoTime - video.currentTime >= 5
        \/ video.paused # prog.lastVideoPaused

C22_SaveOnlyOnChange == [][C22_PollStep]_vars

\* a poll attempted a save of a playing video whose paused flag had not
\* changed: the time had moved
C22_PollSavedAfterTimeChange ==
    /\ hist.op = "checkCurrentVideo"
    /\ hist.tried
    /\ now > StartNow
    /\ ~prog.lastVideoPaused
    /\ prog.lastVideoTime = 40

----------------------------------------------------------------------------
(* Properties of the pause and throttle gates (SpecGates) *)

\* the step is a call of one of the two save functions (every step of
\* SpecGates records its operation)
SaveCall == hist'.op \in {"saveTimestamp", "managerSave"}

\* the paused flag the called function reads: the video element for
\* saveTimestamp, State.videoState for TimestampManager.save
PausedAsRead ==
    IF hist'.op = "saveTimestamp" THEN video.present /\ video.paused
    ELSE videoState.isPaused

\* C23: with saveOnPause disabled a non-forced save issued while the video is
\* paused does not change the store; a forced save of a valid position is
\* never rejected by the pause gate or by the throttle: it writes its record,
\* or at a full store queues it for the retry after the clean-up
C23_GateStep ==
    SaveCall =>
        /\ (~hist'.force /\ PausedAsRead /\ ~settings.saveOnPause
               => timestamps' = timestamps /\ pendingSaves' = pendingSaves)
        /\ (hist'.force /\ hist'.time >= 0 /\ hist'.time # NaN
               => \/ /\ HasId(timestamps', hist'.id)
                     /\ Lookup(timestamps', hist'.id).time = hist'.time
                     /\ Lookup(timestamps', hist'.id).savedAt = now
                  \/ /\ hist'.op = "saveTimestamp"
                     /\ Len(timestamps) >= settings.maxStoredTimestamps
                     /\ pendingSaves' = Append(pendingSaves,
                                               [id |-> hist'.id, time |-> hist'.time, force |-> TRUE]))

----------------------------------------------------------------------------
(* Properties of the scheduler's throttle clock (SpecSaves) *)

\* the auto-save tick called saveTimestamp and the store rejected the save
AutoSaveRejected ==
    /\ AutoSave
    /\ hist'.tried
    /\ ~hist'.wrote

\* C24: a save attempt of the scheduler that the store rejects does not
\* advance the scheduler's throttle clock (lastSaveTime), and is not queued
\* for a later retry
C24_RejectedStep ==
    AutoSaveRejected =>
        /\ prog'.lastSaveTime = prog.lastSaveTime
        /\ pendingSaves' = pendingSaves

C24_ClockCountsSuccessOnly == [][C24_RejectedStep]_vars

----------------------------------------------------------------------------
(* Properties of the handlers under a failing environment (SpecFaults) *)

\* the last handler was an iteration of one of the two polls
PollRan == hist.op \in {"checkCurrentVideo", "performAutoSave"}

\* C25: an exception raised during an iteration of checkCurrentVideo or
\* performAutoSave is caught inside that iteration, and both interval timers
\* are still scheduled after it
C25_PollSurvivesException ==
    PollRan => /\ ~hist.escaped
               /\ hist.caught => prog.checkInterval > 0 /\ prog.autoSaveInterval

\* a poll called saveTimestamp, the storage threw, and the poll caught it
C25_PollCaughtStorageFailure ==
    /\ PollRan
    /\ hist.caught
    /\ hist.tried
    /\ ~hist.wrote

\* C26: no timer callback or event handler lets an exception escape: a
\* failure of the storage or of the URL rewrite inside the navigation
\* handler, the URL poll, an observer callback, the settle callback or the
\* deferred save retry is caught there
C26_NoExceptionEscapes == ~hist.escaped

----------------------------------------------------------------------------
(* Properties of the retry loops (SpecRetries) *)

\* a retry timer of one of the three loops is pending
RetryPending ==
    \/ timers.initialCheck
    \/ timers.retrySetup
    \/ timers.notification = "retry"

PollOnWatchPage ==
    /\ VideoCheck \/ FaultyVideoCheck
    /\ url.v # NoId

\* C28: with removeTimestampFromURL enabled and a time parameter in the URL,
\* getVideoId returns the URL's video id also when the URL rewrite fails:
\* the poll that called it has detected the video of the page
C28_PollStep == PollOnWatchPage => prog'.currentVideoId = url.v

C28_DetectionSurvivesRewrite == [][C28_PollStep]_vars

----------------------------------------------------------------------------
(* Properties of the navigation signals (SpecWatcher) *)

\* C29: one real navigation produces one confirmed change, also when
\* removeTimestampFromURL is enabled: after a navigation of a quiet page (no
\* timer pending, the watcher up to date) the signals that follow the first
\* confirmed change are no-ops, so no handler cancels a settle timer
C29_OneChangePerNavigation == hist.quiet => ~hist.cancelled

\* C30: after the cleanup of the navigation watcher has run, a popstate or
\* hashchange event no longer invokes handleNavigationChange
C30_NoWindowEventAfterCleanup == [][prog.phase = "stopped" => ~WindowEvent]_vars

----------------------------------------------------------------------------
(* Properties of the shutdown (SpecCleanup) *)

\* C31: performCleanup invokes every handle of the cleanup registry, also
\* when handles throw, and no exception leaves it
C31_EveryCleanupInvoked ==
    hist.op = "performCleanup" =>
        /\ hist.invoked = {CleanupRegistry[i] : i \in DOMAIN CleanupRegistry}
        /\ ~hist.escaped

\* the first handle threw, so the intervals still run, and the handles after
\* it stopped the observers of the watcher and of the player
C31_LaterHandlesRanAfterThrow ==
    /\ hist.op = "performCleanup"
    /\ hist.caught
    /\ prog.checkInterval > 0
    /\ ~prog.observers
    /\ ~timers.observer

----------------------------------------------------------------------------
(* Properties of the scheduler's playback state (SpecPolling) *)

\* a poll detected a video other than the one the scheduler tracked
NewVideoDetected ==
    /\ hist'.op = "checkCurrentVideo"
    /\ prog'.currentVideoId # NoId
    /\ prog'.currentVideoId # prog.currentVideoId

\* C32: the poll that detects a new video id resets the last observed time
\* and paused flag to their initial values, so that the next poll does not
\* compare against what was observed on the previous video
C32_NewVideoStep ==
    NewVideoDetected => prog'.lastVideoTime = 0 /\ prog'.lastVideoPaused = TRUE

C32_PlaybackStateReset == [][C32_NewVideoStep]_vars

----------------------------------------------------------------------------
(* Properties of the delayed restorations (SpecResume) *)

\* a settle callback fired and moved the playhead
SettleSeeked ==
    /\ hist'.op = "settle"
    /\ timers' # timers
    /\ video'.currentTime # video.currentTime

\* the 1000 ms callback of a newly detected video fired and moved the
\* playhead
ProcessVideoSeeked ==
    /\ Len(timers'.pvt) < Len(timers.pvt)
    /\ video'.currentTime # video.currentTime

\* C33: a delayed restoration callback that seeks the player has loaded the
\* record of the video id that the URL shows when it fires
C33_RestoreStep ==
    /\ SettleSeeked => hist'.id = url.v
    /\ ProcessVideoSeeked => Head(timers.pvt) = url.v

C33_RestoresVideoOfUrl == [][C33_RestoreStep]_vars

----------------------------------------------------------------------------
(* Properties of the loads on the persisted map (SpecLoad) *)

\* C34: a call of loadTimestamp or TimestampManager.load leaves the
\* persisted map as it was, whatever it returns
C34_LoadStep ==
    hist'.op \in {"loadTimestamp", "managerLoad"} => timestamps' = timestamps

C34_LoadIsReadOnly == [][C34_LoadStep]_vars

\* a load returned a synthetic record, of the URL time or of the beginning,
\* and the stored record is the one written before
C34_SyntheticLoadKeptRecord ==
    /\ hist.op \in {"loadTimestamp", "managerLoad"}
    /\ hist.result # Null
    /\ hist.result # StoredRecord
    /\ StoredRecord.savedAt = StartNow

----------------------------------------------------------------------------
(* Properties of the autoResume setting (SpecAutoResume) *)

\* a timer, interval or observer callback of the script ran
AutomaticPath ==
    \/ InitialRestore
    \/ VideoCheck
    \/ ProcessVideo
    \/ ObserverSignal
    \/ UrlCheck
    \/ InitialNavigationCheck
    \/ Settle

\* C35: while autoResume is disabled no automatic path writes the current
\* time of the player
C35_AutomaticStep ==
    (~settings.autoResume /\ AutomaticPath) => video'.currentTime = video.currentTime

C35_NoAutomaticSeekWhenDisabled == [][C35_AutomaticStep]_vars

\* with autoResume disabled, the settle callback of the video of the page
\* ran at the beginning of the video, whose stored position is 20, and the
\* playhead is still at the beginning
C35_SettleLeftPlayhead ==
    /\ ~settings.autoResume
    /\ hist.op = "settle"
    /\ hist.id = url.v
    /\ HasId(timestamps, url.v)
    /\ Lookup(timestamps, url.v).time = 20
    /\ video.currentTime = 0

----------------------------------------------------------------------------
(* Properties of the clean-up-then-retry path (SpecStoreRetry) *)

\* C36: a save that had to clean up first ends with its record written after
\* a bounded number of retries, also when other saves run in between: a
\* pending retry does not stay pending for ever
C36_RetryEndsWritten == (pendingSaves # <<>>) ~> (pendingSaves = <<>>)

----------------------------------------------------------------------------
(* Properties of the URL time across the URL rewrite (SpecWatcher) *)

\* the watcher recorded a navigation to the video of the page by a URL whose
\* time parameter is more than 30 seconds away from the stored position,
\* and the page has not navigated since: its URL is the recorded one, as it
\* was or as getVideoId rewrote it
NavigatedWithUrlTime ==
    /\ prog.lastUrl.hasT
    /\ url = GetVideoId(prog.lastUrl).url
    /\ HasId(timestamps, url.v)
    /\ UrlOverride(Value(Lookup(timestamps, url.v)), prog.lastUrl)

\* the settle callback of that navigation fires while the video is at its
\* beginning
SettlesAtBeginning ==
    /\ hist'.op = "settle"
    /\ hist'.id = url.v
    /\ timers' # timers
    /\ video.present
    /\ video.currentTime < 5

\* C37: after a navigation to a URL whose time parameter overrides the
\* stored position, the restoration gets the URL time from load and seeks to
\* it, with removeTimestampFromURL disabled and enabled
C37_SettleStep ==
    (NavigatedWithUrlTime /\ SettlesAtBeginning)
        => video'.currentTime = UrlTimeSeconds(prog.lastUrl.t)

C37_UrlTimeSurvivesRewrite == [][C37_SettleStep]_vars

====
